---- MODULE Spec2Model ----
(***************************************************************************)
(* A model of simecs: the App runner (src/src/app.ts), its schedules       *)
(* (src/src/schedule.ts, core/schedules) and the archetype table           *)
(* (archetypeTable.ts).                                                    *)
(***************************************************************************)
EXTENDS Integers, Sequences, FiniteSets, TLC

VARIABLES
  scheduledSystems,  \* App.scheduledSystems: sequence of [schedule, system]
  hooks,             \* App.hooks: sequence of hook kinds
  lastEntityId,      \* App.lastEntityId
  currentSchedule,   \* App.currentSchedule: a schedule or NULL
  table,             \* ArchetypeTable.table: insertion-ordered [entity, arr]
  arrays,            \* the component arrays the table's values refer to
  heap,              \* the component objects: id -> [type, x, y]
  firstTime,         \* StartupSchedule.firstTime
  thrown,            \* the error raised by the last call, or NoError
  runPc,             \* position of run()
  call,              \* the step() call in flight
  log,               \* history: callback events of the current step() call
  stepLog,           \* history: the schedule of every step() run() made
  visited,           \* history: cursors set since advanceSchedule() left null
  walkSystems,       \* history: Len(scheduledSystems) when that walk began
  predLog,           \* history: the predicate evaluations of run(), [schedule, value]
  autoIds,           \* history: the ids addEntity(null, ...) has assigned
  restarted,         \* history: the cursor left null after an earlier walk
  returned,          \* what the last lookup on the table returned
  frozen,            \* the ArchetypeTable object has been frozen
  waiting,           \* the step() calls suspended at an await while another runs
  lateFirstTime      \* the one-shot flag of a user's schedule ("late")

vars == <<scheduledSystems, hooks, lastEntityId, currentSchedule, table, arrays,
          heap, firstTime, thrown, runPc, call, log, stepLog, visited, walkSystems,
          predLog, autoIds, restarted, returned, frozen, waiting, lateFirstTime>>

NULL == "null"
NoError == "none"
ErrNoSystems == "No systems to run"
ErrDuplicate == "Entity already exists"

\* addEntity's id argument null: no entity id is negative here.
NoId == -1

\* ---------------------------------------------------------------- bounds
MaxSystems == 3
MaxVisited == 4
MaxStepSystems == 2
MaxRunSystems == 2
MaxHooks == 2
MaxStepHooks == 1
MaxSteps == 2
MaxUserSteps == 1
MaxComponents == 3
MaxArrays == 2
MaxMoveSteps == 2
MaxOrderSteps == 3

\* advanceSchedule() calls by hand
MaxManualMoves == 2

\* systems of an app whose step() calls overlap
MaxOverlapSystems == 1

\* ------------------------------------------------------------- schedules
\* STARTUP_SCHEDULE, UPDATE_SCHEDULE and the README's DelayedUpdateSchedule,
\* whose asynchronous predicate resolves to true ("delayedUpdate": run again)
\* or to false ("delayedStop": stop and continue with the next schedule).
Schedules == {"startup", "update", "delayedUpdate", "delayedStop"}

\* A schedule of the library's user, made as StartupSchedule is (a predicate
\* that returns true once) with an order after UPDATE_SCHEDULE's.
UserSchedules == {"late"}

StartupOrder == 0
UpdateOrder == 1
DelayedUpdateOrder == 0
LateOrder == 2

order(s) ==
  CASE s = "startup" -> StartupOrder
    [] s = "update" -> UpdateOrder
    [] s = "delayedUpdate" -> DelayedUpdateOrder
    [] s = "delayedStop" -> DelayedUpdateOrder
    [] s = "late" -> LateOrder

\* ------------------------------------------------------------- sequences
\* Array.prototype.indexOf, 1-based: 0 when x is not in seq (JS: -1).
indexOf(seq, x) ==
  IF \E i \in 1..Len(seq) : seq[i] = x
    THEN CHOOSE i \in 1..Len(seq) : seq[i] = x /\ \A j \in 1..(i - 1) : seq[j] # x
    ELSE 0

\* seq[i] ?? null with a 1-based index.
atOrNull(seq, i) == IF i \in 1..Len(seq) THEN seq[i] ELSE NULL

RECURSIVE insertByOrder(_, _)
insertByOrder(sorted, s) ==
  IF sorted = <<>> THEN <<s>>
  ELSE IF order(s) < order(Head(sorted)) THEN <<s>> \o sorted
  ELSE <<Head(sorted)>> \o insertByOrder(Tail(sorted), s)

\* schedules.sort((a, b) => a.order - b.order): a stable sort.
RECURSIVE sortByOrder(_)
sortByOrder(seq) ==
  IF seq = <<>> THEN <<>>
  ELSE insertByOrder(sortByOrder(SubSeq(seq, 1, Len(seq) - 1)), seq[Len(seq)])

\* scheduledSystems.map(scheduledSystem => scheduledSystem.schedule)
schedulesOf(entries) == [i \in 1..Len(entries) |-> entries[i].schedule]

\* Array de-duplication keeping first occurrences (the distinct schedules).
RECURSIVE distinctSeq(_)
distinctSeq(seq) ==
  IF seq = <<>> THEN <<>>
  ELSE LET r == distinctSeq(SubSeq(seq, 1, Len(seq) - 1))
           x == seq[Len(seq)]
       IN IF \E i \in 1..Len(r) : r[i] = x THEN r ELSE Append(r, x)

\* The element after x in seq, NULL after the last.
successor(seq, x) == atOrNull(seq, indexOf(seq, x) + 1)

\* Mutant: the first call takes the first registered schedule, unsorted.
nextSchedule_unsorted(entries, cur) ==
  atOrNull(schedulesOf(entries), indexOf(schedulesOf(entries), cur) + 1)

\* Mutant: later calls walk the distinct schedules in sorted order.
nextSchedule_distinct(entries, cur) ==
  IF cur = NULL
    THEN atOrNull(sortByOrder(schedulesOf(entries)), 1)
    ELSE successor(distinctSeq(sortByOrder(schedulesOf(entries))), cur)

\* Mutant: the first call takes STARTUP_SCHEDULE, registered or not.
nextSchedule_default(entries, cur) ==
  IF cur = NULL
    THEN "startup"
    ELSE atOrNull(schedulesOf(entries), indexOf(schedulesOf(entries), cur) + 1)

\* Mutant: a null cursor after a walk stays null.
nextSchedule_terminal(entries, cur) ==
  IF cur = NULL
    THEN IF visited # <<>> THEN NULL
         ELSE atOrNull(sortByOrder(schedulesOf(entries)), 1)
    ELSE atOrNull(schedulesOf(entries), indexOf(schedulesOf(entries), cur) + 1)

\* The cursor advanceSchedule() assigns.
nextSchedule(entries, cur) ==
  IF cur = NULL
    THEN atOrNull(sortByOrder(schedulesOf(entries)), 1)
    ELSE atOrNull(schedulesOf(entries), indexOf(schedulesOf(entries), cur) + 1)

\* ------------------------------------------------------ archetype table
\* A store is [table, arrays, heap]: the operators below return the store a
\* call leaves. Component classes are named by their type.
Position(x, y) == [type |-> "Position", x |-> x, y |-> y]
Velocity(x, y) == [type |-> "Velocity", x |-> x, y |-> y]

Store == [table |-> table, arrays |-> arrays, heap |-> heap]

\* this.table.get(entity): the array's id, 0 for undefined.
tableGet(st, entity) ==
  IF \E i \in 1..Len(st.table) : st.table[i].entity = entity
    THEN st.table[CHOOSE i \in 1..Len(st.table) : st.table[i].entity = entity].arr
    ELSE 0

\* Mutant: a new key goes first.
tableSet_front(st, entity, arr) ==
  IF tableGet(st, entity) = 0
    THEN [st EXCEPT !.table = <<[entity |-> entity, arr |-> arr]>> \o @]
    ELSE [st EXCEPT !.table =
            [i \in 1..Len(@) |-> IF @[i].entity = entity
                                   THEN [entity |-> entity, arr |-> arr] ELSE @[i]]]

\* this.table.set(entity, arr): a new key goes last, a known key keeps its place.
tableSet(st, entity, arr) ==
  IF tableGet(st, entity) = 0
    THEN [st EXCEPT !.table = Append(@, [entity |-> entity, arr |-> arr])]
    ELSE [st EXCEPT !.table =
            [i \in 1..Len(@) |-> IF @[i].entity = entity
                                   THEN [entity |-> entity, arr |-> arr] ELSE @[i]]]

\* new C(...) for every template of a batch, collected in a new array:
\* the store with the objects allocated; the array's id is Len(arrays).
allocBatch(st, batch) ==
  [st EXCEPT !.heap = @ \o batch,
             !.arrays = Append(@, [i \in 1..Len(batch) |-> Len(st.heap) + i])]

exists(st, entity) == tableGet(st, entity) # 0

\* Mutant: add does nothing for an entity that is not in the table.
add_onlyExisting(st, entity, c) ==
  IF tableGet(st, entity) = 0
    THEN st
    ELSE [st EXCEPT !.arrays[tableGet(st, entity)] = Append(@, c)]

\* ArchetypeTable.add with the component object c.
add(st, entity, c) ==
  IF tableGet(st, entity) = 0
    THEN tableSet([st EXCEPT !.arrays = Append(@, <<c>>)], entity, Len(st.arrays) + 1)
    ELSE [st EXCEPT !.arrays[tableGet(st, entity)] = Append(@, c)]

\* ArchetypeTable.addAll with the array object newComponents.
addAll(st, entity, newComponents) ==
  IF tableGet(st, entity) = 0
    THEN tableSet(st, entity, newComponents)
    ELSE [st EXCEPT !.arrays[tableGet(st, entity)] = @ \o @]

\* Mutant: delete empties the entity's components and keeps its key.
delete_cleared(st, entity) ==
  IF tableGet(st, entity) = 0 THEN st
  ELSE [st EXCEPT !.arrays[tableGet(st, entity)] = <<>>]

\* Mutant: delete empties the whole table.
delete_all(st, entity) == [st EXCEPT !.table = <<>>]

\* ArchetypeTable.delete
delete(st, entity) ==
  [st EXCEPT !.table = SelectSeq(@, LAMBDA r : r.entity # entity)]

\* What a lookup returns: undefined, or the array found (its objects' ids).
Undefined == [defined |-> FALSE, items |-> <<>>]
Defined(items) == [defined |-> TRUE, items |-> items]

\* Mutant: getAll of a missing entity is an empty array.
getAll_empty(st, entity) ==
  IF tableGet(st, entity) = 0 THEN Defined(<<>>)
  ELSE Defined(st.arrays[tableGet(st, entity)])

\* ArchetypeTable.getAll
getAll(st, entity) ==
  IF tableGet(st, entity) = 0 THEN Undefined
  ELSE Defined(st.arrays[tableGet(st, entity)])

\* ArchetypeTable.has
has(st, entity, type) ==
  IF tableGet(st, entity) = 0 THEN FALSE
  ELSE LET components == st.arrays[tableGet(st, entity)]
       IN \E i \in 1..Len(components) : st.heap[components[i]].type = type

\* ArchetypeTable.hasAll
hasAll(st, entity, types) ==
  IF tableGet(st, entity) = 0 THEN FALSE
  ELSE LET components == st.arrays[tableGet(st, entity)]
       IN \A k \in 1..Len(types) :
            \E i \in 1..Len(components) : st.heap[components[i]].type = types[k]

\* Mutant: the first component of the entity, whatever its class.
firstOfType_any(st, arr, type) ==
  IF st.arrays[arr] = <<>> THEN 0 ELSE st.arrays[arr][1]

\* Mutant: the last component of the class instead of the first.
firstOfType_last(st, arr, type) ==
  LET comps == st.arrays[arr]
      hits == {i \in 1..Len(comps) : st.heap[comps[i]].type = type}
  IN IF hits = {} THEN 0 ELSE comps[CHOOSE i \in hits : \A j \in hits : i >= j]

\* components.find(c => c instanceof component): the object's id, 0 for undefined.
firstOfType(st, arr, type) ==
  LET comps == st.arrays[arr]
      hits == {i \in 1..Len(comps) : st.heap[comps[i]].type = type}
  IN IF hits = {} THEN 0 ELSE comps[CHOOSE i \in hits : \A j \in hits : i <= j]

\* Mutant: get returns the entity's last component of the class.
get_last(st, entity, type) ==
  IF tableGet(st, entity) = 0 THEN 0
  ELSE firstOfType_last(st, tableGet(st, entity), type)

\* ArchetypeTable.get: the object's id, 0 for undefined.
get(st, entity, type) ==
  IF tableGet(st, entity) = 0 THEN 0
  ELSE firstOfType(st, tableGet(st, entity), type)

matched(st, arr, types) == [k \in 1..Len(types) |-> firstOfType(st, arr, types[k])]

RECURSIVE findFrom(_, _, _)
findFrom(st, types, i) ==
  IF i > Len(st.table) THEN <<>>
  ELSE LET m == matched(st, st.table[i].arr, types)
       IN (IF \A k \in 1..Len(m) : m[k] # 0
             THEN <<[entity |-> st.table[i].entity, components |-> m]>>
             ELSE <<>>) \o findFrom(st, types, i + 1)

\* ArchetypeTable.find
find(st, types) == findFrom(st, types, 1)

\* ---------------------------------------------------------------- systems
\* The system classes: the tests' IncreaseXByOneSystem and NoopSystem, the
\* core MovementSystem, a system whose update deletes its entity (the
\* README's HealthSystem) and one whose update adds an entity.
Systems == {"IncreaseXByOne", "Movement", "Noop", "Despawn", "Spawn"}

\* Systems of the library's user whose update changes the store for other
\* entities than its own: one deletes the entity five ids above, one adds a
\* Position to the entity one id above (creating the entity when missing).
BatchSystems == {"Cascade", "Clone"}

select(system, st) ==
  CASE system = "IncreaseXByOne" -> find(st, <<"Position">>)
    [] system = "Movement" -> find(st, <<"Position", "Velocity">>)
    [] system = "Noop" -> <<>>
    [] system = "Despawn" -> find(st, <<"Velocity">>)
    [] system = "Spawn" -> find(st, <<"Velocity">>)
    [] system = "Cascade" -> find(st, <<"Position">>)
    [] system = "Clone" -> find(st, <<"Position">>)

\* Mutant: MovementSystem adds the velocity twice.
update_movesTwice(system, st, entity, components) ==
  IF system = "Movement"
    THEN [st EXCEPT !.heap[components[1]].x = @ + 2 * st.heap[components[2]].x,
                    !.heap[components[1]].y = @ + 2 * st.heap[components[2]].y]
    ELSE st

\* The store after update(entity, components) of a system.
update(system, st, entity, components) ==
  CASE system = "IncreaseXByOne" ->
         [st EXCEPT !.heap[components[1]].x = @ + 1]
    [] system = "Movement" ->
         [st EXCEPT !.heap[components[1]].x = @ + st.heap[components[2]].x,
                    !.heap[components[1]].y = @ + st.heap[components[2]].y]
    [] system = "Noop" -> st
    [] system = "Despawn" -> delete(st, entity)
    [] system = "Spawn" ->
         add([st EXCEPT !.heap = Append(@, Position(0, 0))], entity + 1,
             Len(st.heap) + 1)
    [] system = "Cascade" -> delete(st, entity + 5)
    [] system = "Clone" ->
         add([st EXCEPT !.heap = Append(@, Position(0, 0))], entity + 1,
             Len(st.heap) + 1)

\* ------------------------------------------------------------------ hooks
\* A hook class implements beforeSystemUpdate, afterSystemUpdate, or both.
HookKinds == {"both", "beforeOnly", "afterOnly"}
\* Mutant: beforeSystemUpdate is called whether the hook implements it or not.
hasBefore_unchecked(hook) == TRUE

hasBefore(hook) == hook \in {"both", "beforeOnly", "nudge"}
hasAfter(hook) == hook \in {"both", "afterOnly"}

\* ------------------------------------------------------------------ init
\* No lookup has returned yet.
NoResult == [op |-> "none"]

NoCall == [pc |-> "idle", schedule |-> NULL, caller |-> "none", entries |-> <<>>,
           i |-> 0, queries |-> <<>>, h |-> 0, q |-> 0, running |-> FALSE,
           id |-> 1]

Init ==
  /\ scheduledSystems = <<>>
  /\ hooks = <<>>
  /\ lastEntityId = 0
  /\ currentSchedule = NULL
  /\ table = <<>>
  /\ arrays = <<>>
  /\ heap = <<>>
  /\ firstTime = TRUE
  /\ thrown = NoError
  /\ runPc = "idle"
  /\ call = NoCall
  /\ log = <<>>
  /\ stepLog = <<>>
  /\ visited = <<>>
  /\ walkSystems = 0
  /\ predLog = <<>>
  /\ autoIds = <<>>
  /\ restarted = FALSE
  /\ returned = NoResult
  /\ frozen = FALSE
  /\ waiting = <<>>
  /\ lateFirstTime = TRUE

\* -------------------------------------------------------------- addEntity
\* Mutant: an existing id is not rejected.
addEntity_overwrites(id, batch) ==
  LET eid == IF id # NoId THEN id ELSE lastEntityId
      st == allocBatch(Store, batch)
      res == addAll(st, eid, Len(st.arrays))
  IN /\ lastEntityId' = IF id # NoId THEN lastEntityId ELSE lastEntityId + 1
     /\ autoIds' = IF id # NoId THEN autoIds ELSE Append(autoIds, eid)
     /\ thrown' = NoError
     /\ table' = res.table
     /\ arrays' = res.arrays
     /\ heap' = res.heap
     /\ UNCHANGED <<scheduledSystems, hooks, currentSchedule, firstTime, runPc,
                    call, log, stepLog, visited, walkSystems, predLog,
                    restarted, returned, frozen, waiting,
                 lateFirstTime>>

\* Mutant: the generated id is not advanced.
addEntity_sameId(id, batch) ==
  LET eid == IF id # NoId THEN id ELSE lastEntityId
  IN /\ lastEntityId' = lastEntityId
     /\ autoIds' = IF id # NoId THEN autoIds ELSE Append(autoIds, eid)
     /\ IF exists(Store, eid)
          THEN /\ thrown' = ErrDuplicate
               /\ UNCHANGED <<table, arrays, heap>>
          ELSE LET st == allocBatch(Store, batch)
                   res == addAll(st, eid, Len(st.arrays))
               IN /\ thrown' = NoError
                  /\ table' = res.table
                  /\ arrays' = res.arrays
                  /\ heap' = res.heap
     /\ UNCHANGED <<scheduledSystems, hooks, currentSchedule, firstTime, runPc,
                    call, log, stepLog, visited, walkSystems, predLog,
                    restarted, returned, frozen, waiting,
                 lateFirstTime>>

\* id is an entity id or NoId (null); batch is the templates of ...components.
addEntity(id, batch) ==
  LET eid == IF id # NoId THEN id ELSE lastEntityId
  IN /\ lastEntityId' = IF id # NoId THEN lastEntityId ELSE lastEntityId + 1
     /\ autoIds' = IF id # NoId THEN autoIds ELSE Append(autoIds, eid)
     /\ IF exists(Store, eid)
          THEN /\ thrown' = ErrDuplicate
               /\ UNCHANGED <<table, arrays, heap>>
          ELSE LET st == allocBatch(Store, batch)
                   res == addAll(st, eid, Len(st.arrays))
               IN /\ thrown' = NoError
                  /\ table' = res.table
                  /\ arrays' = res.arrays
                  /\ heap' = res.heap
     /\ UNCHANGED <<scheduledSystems, hooks, currentSchedule, firstTime, runPc,
                    call, log, stepLog, visited, walkSystems, predLog,
                    restarted, returned, frozen, waiting,
                 lateFirstTime>>

\* ------------------------------------------- the table, called directly
\* table.add(entity, new C(...)) as the table's tests call it.
tableAdd(entity, c) ==
  LET res == add([Store EXCEPT !.heap = Append(@, c)], entity, Len(heap) + 1)
  IN /\ table' = res.table
     /\ arrays' = res.arrays
     /\ heap' = res.heap
     /\ thrown' = NoError
     /\ UNCHANGED <<scheduledSystems, hooks, lastEntityId, currentSchedule, firstTime,
                    runPc, call, log, stepLog, visited, walkSystems, predLog, autoIds,
                    restarted, returned, frozen, waiting,
                 lateFirstTime>>

\* table.addAll(entity, [new C(...), ...]) with a new array.
tableAddAll(entity, batch) ==
  LET st == allocBatch(Store, batch)
      res == addAll(st, entity, Len(st.arrays))
  IN /\ table' = res.table
     /\ arrays' = res.arrays
     /\ heap' = res.heap
     /\ thrown' = NoError
     /\ UNCHANGED <<scheduledSystems, hooks, lastEntityId, currentSchedule, firstTime,
                    runPc, call, log, stepLog, visited, walkSystems, predLog, autoIds,
                    restarted, returned, frozen, waiting,
                 lateFirstTime>>

\* table.addAll(entity, b) with b an array that exists already: one the
\* caller made for an earlier addAll, or one getAll returned.
tableAddAllArray(entity, b) ==
  LET res == addAll(Store, entity, b)
  IN /\ table' = res.table
     /\ arrays' = res.arrays
     /\ heap' = res.heap
     /\ thrown' = NoError
     /\ UNCHANGED <<scheduledSystems, hooks, lastEntityId, currentSchedule, firstTime,
                    runPc, call, log, stepLog, visited, walkSystems, predLog, autoIds,
                    restarted, returned, frozen, waiting,
                 lateFirstTime>>

\* table.delete(entity)
tableDelete(entity) ==
  /\ table' = delete(Store, entity).table
  /\ arrays' = delete(Store, entity).arrays
  /\ heap' = delete(Store, entity).heap
  /\ thrown' = NoError
  /\ UNCHANGED <<scheduledSystems, hooks, lastEntityId, currentSchedule, firstTime,
                 runPc, call, log, stepLog, visited, walkSystems, predLog, autoIds,
                    restarted, returned, frozen, waiting,
                 lateFirstTime>>

\* ------------------------------------------------- the table's lookups
\* table.has(entity, C)
callHas(entity, type) ==
  /\ returned' = [op |-> "has", value |-> has(Store, entity, type)]
  /\ thrown' = NoError
  /\ UNCHANGED <<scheduledSystems, hooks, lastEntityId, currentSchedule, table, arrays,
                 heap, firstTime, runPc, call, log, stepLog, visited, walkSystems,
                 predLog, autoIds, restarted, frozen, waiting,
                 lateFirstTime>>

\* table.hasAll(entity, ...Cs)
callHasAll(entity, types) ==
  /\ returned' = [op |-> "hasAll", value |-> hasAll(Store, entity, types)]
  /\ thrown' = NoError
  /\ UNCHANGED <<scheduledSystems, hooks, lastEntityId, currentSchedule, table, arrays,
                 heap, firstTime, runPc, call, log, stepLog, visited, walkSystems,
                 predLog, autoIds, restarted, frozen, waiting,
                 lateFirstTime>>

\* table.get(entity, C)
callGet(entity, type) ==
  /\ returned' = [op |-> "get", value |-> get(Store, entity, type)]
  /\ thrown' = NoError
  /\ UNCHANGED <<scheduledSystems, hooks, lastEntityId, currentSchedule, table, arrays,
                 heap, firstTime, runPc, call, log, stepLog, visited, walkSystems,
                 predLog, autoIds, restarted, frozen, waiting,
                 lateFirstTime>>

\* table.getAll(entity)
callGetAll(entity) ==
  /\ returned' = [op |-> "getAll", value |-> getAll(Store, entity)]
  /\ thrown' = NoError
  /\ UNCHANGED <<scheduledSystems, hooks, lastEntityId, currentSchedule, table, arrays,
                 heap, firstTime, runPc, call, log, stepLog, visited, walkSystems,
                 predLog, autoIds, restarted, frozen, waiting,
                 lateFirstTime>>

\* table.find(...Cs)
callFind(types) ==
  /\ returned' = [op |-> "find", value |-> find(Store, types)]
  /\ thrown' = NoError
  /\ UNCHANGED <<scheduledSystems, hooks, lastEntityId, currentSchedule, table, arrays,
                 heap, firstTime, runPc, call, log, stepLog, visited, walkSystems,
                 predLog, autoIds, restarted, frozen, waiting,
                 lateFirstTime>>

\* App.getArchetypeTable: Object.freeze(this.archetypeTable) freezes the
\* table object's own properties; the Map it holds is not frozen and no
\* method of the table assigns a property.
getArchetypeTable ==
  /\ frozen' = TRUE
  /\ thrown' = NoError
  /\ UNCHANGED <<scheduledSystems, hooks, lastEntityId, currentSchedule, table, arrays,
                 heap, firstTime, runPc, call, log, stepLog, visited, walkSystems,
                 predLog, autoIds, restarted, returned, waiting,
                 lateFirstTime>>

\* -------------------------------------------------------------- addSystem
addSystem(schedule, system) ==
  /\ scheduledSystems' = Append(scheduledSystems, [schedule |-> schedule, system |-> system])
  /\ thrown' = NoError
  /\ UNCHANGED <<hooks, lastEntityId, currentSchedule, table, arrays, heap,
                 firstTime, runPc, call, log, stepLog, visited, walkSystems>>
  /\ UNCHANGED <<predLog, autoIds, restarted, returned, frozen, waiting,
                 lateFirstTime>>

\* ---------------------------------------------------------------- addHook
addHook(hook) ==
  /\ hooks' = Append(hooks, hook)
  /\ thrown' = NoError
  /\ UNCHANGED <<scheduledSystems, lastEntityId, currentSchedule, table, arrays,
                 heap, firstTime, runPc, call, log, stepLog, visited, walkSystems>>
  /\ UNCHANGED <<predLog, autoIds, restarted, returned, frozen, waiting,
                 lateFirstTime>>

\* -------------------------------------------------------- advanceSchedule
\* The history the cursor's walk leaves: restarted when the cursor leaves null.
visitedAfter(cur, nxt) ==
  IF nxt = NULL THEN visited
  ELSE IF cur = NULL THEN <<nxt>>
  ELSE Append(visited, nxt)

\* Mutant: advanceSchedule() does not check that a system is registered.
advanceBody_unchecked ==
  /\ thrown' = NoError
  /\ currentSchedule' = nextSchedule(scheduledSystems, currentSchedule)
  /\ visited' = visitedAfter(currentSchedule, currentSchedule')
  /\ walkSystems' = IF currentSchedule = NULL
                      THEN Len(scheduledSystems) ELSE walkSystems
  /\ restarted' = (restarted \/ (currentSchedule = NULL /\ visited # <<>>
                                    /\ currentSchedule' # NULL))

\* The body of advanceSchedule(), for a direct call and for run()'s calls.
advanceBody ==
  IF Len(scheduledSystems) = 0
    THEN /\ thrown' = ErrNoSystems
         /\ UNCHANGED <<currentSchedule, visited, walkSystems, restarted>>
    ELSE /\ thrown' = NoError
         /\ currentSchedule' = nextSchedule(scheduledSystems, currentSchedule)
         /\ visited' = visitedAfter(currentSchedule, currentSchedule')
         /\ walkSystems' = IF currentSchedule = NULL
                             THEN Len(scheduledSystems) ELSE walkSystems
         /\ restarted' = (restarted \/ (currentSchedule = NULL /\ visited # <<>>
                                           /\ currentSchedule' # NULL))

advanceSchedule ==
  /\ Len(visited) < MaxVisited
  /\ advanceBody
  /\ UNCHANGED <<scheduledSystems, hooks, lastEntityId, table, arrays, heap,
                 firstTime, runPc, call, log, stepLog>>
  /\ UNCHANGED <<predLog, autoIds, returned, frozen, waiting,
                 lateFirstTime>>

\* ------------------------------------------------------------------- step
\* structuredClone(queries): the values a hook (the tests' TestHook) records.
snapshot(st, queries) ==
  [k \in 1..Len(queries) |->
     [entity |-> queries[k].entity,
      components |-> [j \in 1..Len(queries[k].components) |->
                        st.heap[queries[k].components[j]]]]]

\* An event of the history: ev is "select", or "start" or "end" of a callback
\* cb ("before", "update", "after"); sys is the entry's index in
\* scheduledSystems, idx the hook's index in hooks or the query's index in
\* the batch, queries the batch handed over and seen its values at the event,
\* callId the step() call that made it.
eventOf(ev, cb, idx, entity, st, queries) ==
  [ev |-> ev, cb |-> cb, sys |-> call.entries[call.i], idx |-> idx,
   entity |-> entity, queries |-> queries, seen |-> snapshot(st, queries),
   callId |-> call.id]

event(ev, cb, idx, entity, st) == eventOf(ev, cb, idx, entity, st, call.queries)

\* Mutant: step() runs every registered entry, whatever its schedule.
filterEntries_all(entries, schedule, i) == [k \in 1..Len(entries) |-> k]

\* this.scheduledSystems.filter(s => s.schedule === schedule), as indices.
RECURSIVE filterEntries(_, _, _)
filterEntries(entries, schedule, i) ==
  IF i > Len(entries) THEN <<>>
  ELSE (IF entries[i].schedule = schedule THEN <<i>> ELSE <<>>)
         \o filterEntries(entries, schedule, i + 1)

\* The call of step(schedule): the filter, up to the loop's head.
stepBegin(schedule, caller) ==
  /\ call.pc = "idle"
  /\ call' = [NoCall EXCEPT !.pc = "select", !.schedule = schedule,
                            !.caller = caller, !.i = 1,
                            !.entries = filterEntries(scheduledSystems, schedule, 1)]
  /\ log' = <<>>
  /\ stepLog' = Append(stepLog, schedule)

\* Mutant: step() evaluates the schedule's predicate as run() does.
step_evaluating(schedule) ==
  /\ runPc \in {"idle", "done"}
  /\ stepBegin(schedule, "user")
  /\ thrown' = NoError
  /\ firstTime' = IF schedule = "startup" THEN FALSE ELSE firstTime
  /\ UNCHANGED <<scheduledSystems, hooks, lastEntityId, currentSchedule, table,
                 arrays, heap, runPc, visited, walkSystems>>
  /\ UNCHANGED <<predLog, autoIds, restarted, returned, frozen, waiting,
                 lateFirstTime>>

\* await app.step(schedule) by the program's user, before run() is called
\* or after it has returned.
step(schedule) ==
  /\ runPc \in {"idle", "done"}
  /\ stepBegin(schedule, "user")
  /\ thrown' = NoError
  /\ UNCHANGED <<scheduledSystems, hooks, lastEntityId, currentSchedule, table,
                 arrays, heap, firstTime, runPc, visited, walkSystems>>
  /\ UNCHANGED <<predLog, autoIds, restarted, returned, frozen, waiting,
                 lateFirstTime>>

\* The places where a step() call is suspended: each is an await of step().
AwaitPcs == {"awaitBefore", "awaitUpdate", "awaitAfter"}

\* app.step(schedule) called by the program's user while an earlier step()
\* call, whose promise it did not await, is suspended at an await: the new
\* call runs from its filter up to its first await.
stepAgain(schedule) ==
  /\ runPc = "idle"
  /\ call.pc \in AwaitPcs
  /\ call.caller = "user"
  /\ waiting = <<>>
  /\ waiting' = <<call>>
  /\ call' = [NoCall EXCEPT !.pc = "select", !.schedule = schedule,
                            !.caller = "user", !.i = 1, !.id = call.id + 1,
                            !.entries = filterEntries(scheduledSystems, schedule, 1)]
  /\ stepLog' = Append(stepLog, schedule)
  /\ UNCHANGED <<scheduledSystems, hooks, lastEntityId, currentSchedule, table,
                 arrays, heap, firstTime, thrown, runPc, log, visited, walkSystems>>
  /\ UNCHANGED <<predLog, autoIds, restarted, returned, frozen, lateFirstTime>>

\* The event loop goes on with the other step() call: the running one is
\* suspended at an await, or has returned.
resume ==
  /\ waiting # <<>>
  /\ call.pc \in AwaitPcs \cup {"idle"}
  /\ call' = waiting[1]
  /\ waiting' = IF call.pc = "idle" THEN <<>> ELSE <<call>>
  /\ UNCHANGED <<scheduledSystems, hooks, lastEntityId, currentSchedule, table,
                 arrays, heap, firstTime, thrown, runPc, log, stepLog, visited,
                 walkSystems>>
  /\ UNCHANGED <<predLog, autoIds, restarted, returned, frozen, lateFirstTime>>

\* Mutant: a system with an empty selection is not skipped.
stepSelect_noSkip ==
  /\ call.pc = "select"
  /\ IF call.i > Len(call.entries)
       THEN /\ call' = NoCall
            /\ runPc' = IF call.caller = "run" THEN "loop" ELSE runPc
            /\ UNCHANGED log
       ELSE LET queries == select(scheduledSystems[call.entries[call.i]].system, Store)
            IN /\ call' = [call EXCEPT !.queries = queries, !.pc = "before", !.h = 1]
               /\ log' = Append(log, eventOf("select", "select", 0, 0, Store, queries))
               /\ UNCHANGED runPc
  /\ UNCHANGED <<scheduledSystems, hooks, lastEntityId, currentSchedule, table,
                 arrays, heap, firstTime, thrown, stepLog, visited, walkSystems>>
  /\ UNCHANGED <<predLog, autoIds, restarted, returned, frozen, waiting,
                 lateFirstTime>>

\* The head of the loop over the schedule's systems: select(), or the return.
stepSelect ==
  /\ call.pc = "select"
  /\ IF call.i > Len(call.entries)
       THEN /\ call' = NoCall
            /\ runPc' = IF call.caller = "run" THEN "loop" ELSE runPc
            /\ UNCHANGED log
       ELSE LET queries == select(scheduledSystems[call.entries[call.i]].system, Store)
            IN /\ call' = IF Len(queries) = 0
                            THEN [call EXCEPT !.i = @ + 1]
                            ELSE [call EXCEPT !.queries = queries, !.pc = "before", !.h = 1]
               /\ log' = Append(log, eventOf("select", "select", 0, 0, Store, queries))
               /\ UNCHANGED runPc
  /\ UNCHANGED <<scheduledSystems, hooks, lastEntityId, currentSchedule, table,
                 arrays, heap, firstTime, thrown, stepLog, visited, walkSystems>>
  /\ UNCHANGED <<predLog, autoIds, restarted, returned, frozen, waiting,
                 lateFirstTime>>

\* Mutant: the updates start without the hooks' beforeSystemUpdate.
stepBefore_skipped ==
  /\ call.pc = "before"
  /\ call' = [call EXCEPT !.pc = "update", !.q = 1]
  /\ UNCHANGED <<scheduledSystems, hooks, lastEntityId, currentSchedule, table,
                 arrays, heap, firstTime, thrown, runPc, log, stepLog, visited,
                 walkSystems>>
  /\ UNCHANGED <<predLog, autoIds, restarted, returned, frozen, waiting,
                 lateFirstTime>>

\* Mutant: the hook's writes go to copies of the components it was given.
nudged_onCopy(hook, st, queries) == st

\* The store after beforeSystemUpdate(system, queries) of a hook. The hook
\* "nudge" adds 10 to the x of the first component of every query it is
\* given; the tests' hooks record what they are given and write nothing.
nudged(hook, st, queries) ==
  IF hook = "nudge"
    THEN [st EXCEPT !.heap =
            [id \in 1..Len(st.heap) |->
               IF \E k \in 1..Len(queries) : queries[k].components[1] = id
                 THEN [st.heap[id] EXCEPT !.x = @ + 10]
                 ELSE st.heap[id]]]
    ELSE st

\* The loop over the hooks before the updates: a hook's beforeSystemUpdate is
\* called (it returns void or a Promise) and awaited.
stepBefore ==
  /\ call.pc = "before"
  /\ IF call.h > Len(hooks)
       THEN /\ call' = [call EXCEPT !.pc = "update", !.q = 1]
            /\ UNCHANGED <<log, heap>>
       ELSE IF hasBefore(hooks[call.h])
         THEN \E async \in BOOLEAN :
                /\ call' = [call EXCEPT !.pc = "awaitBefore", !.running = async]
                /\ heap' = IF async THEN heap
                           ELSE nudged(hooks[call.h], Store, call.queries).heap
                /\ log' = log \o <<event("start", "before", call.h, 0, Store)>>
                              \o (IF async THEN <<>>
                                  ELSE <<event("end", "before", call.h, 0,
                                               nudged(hooks[call.h], Store,
                                                      call.queries))>>)
         ELSE /\ call' = [call EXCEPT !.h = @ + 1]
              /\ UNCHANGED <<log, heap>>
  /\ UNCHANGED <<scheduledSystems, hooks, lastEntityId, currentSchedule, table,
                 arrays, firstTime, thrown, runPc, stepLog, visited, walkSystems>>
  /\ UNCHANGED <<predLog, autoIds, restarted, returned, frozen, waiting,
                 lateFirstTime>>

\* The awaited beforeSystemUpdate has completed: step() resumes.
stepAwaitBefore ==
  /\ call.pc = "awaitBefore"
  /\ call' = [call EXCEPT !.pc = "before", !.h = @ + 1, !.running = FALSE]
  /\ heap' = IF call.running
               THEN nudged(hooks[call.h], Store, call.queries).heap ELSE heap
  /\ log' = IF call.running
              THEN Append(log, event("end", "before", call.h, 0,
                                     nudged(hooks[call.h], Store, call.queries)))
              ELSE log
  /\ UNCHANGED <<scheduledSystems, hooks, lastEntityId, currentSchedule, table,
                 arrays, firstTime, thrown, runPc, stepLog, visited, walkSystems>>
  /\ UNCHANGED <<predLog, autoIds, restarted, returned, frozen, waiting,
                 lateFirstTime>>

\* Mutant: the update's effects are not committed when step() goes on.
updated_notCommitted(q) == Store

\* The store after the update of the batch's query q.
updated(q) ==
  update(scheduledSystems[call.entries[call.i]].system, Store,
         call.queries[q].entity, call.queries[q].components)

\* Mutant: the Promise an update returns is not awaited.
stepUpdate_notAwaited ==
  /\ call.pc = "update"
  /\ IF call.q > Len(call.queries)
       THEN /\ call' = [call EXCEPT !.pc = "after", !.h = 1]
            /\ UNCHANGED <<log, table, arrays, heap>>
       ELSE \E async \in BOOLEAN :
              IF async
                THEN /\ call' = [call EXCEPT !.q = @ + 1]
                     /\ log' = Append(log, event("start", "update", call.q,
                                                 call.queries[call.q].entity, Store))
                     /\ UNCHANGED <<table, arrays, heap>>
                ELSE /\ call' = [call EXCEPT !.q = @ + 1]
                     /\ table' = updated(call.q).table
                     /\ arrays' = updated(call.q).arrays
                     /\ heap' = updated(call.q).heap
                     /\ log' = log \o <<event("start", "update", call.q,
                                              call.queries[call.q].entity, Store),
                                        event("end", "update", call.q,
                                              call.queries[call.q].entity, updated(call.q))>>
  /\ UNCHANGED <<scheduledSystems, hooks, lastEntityId, currentSchedule,
                 firstTime, thrown, runPc, stepLog, visited, walkSystems>>
  /\ UNCHANGED <<predLog, autoIds, restarted, returned, frozen, waiting,
                 lateFirstTime>>

\* Mutant: the batch is checked against the store again before each update.
stepUpdate_revalidated ==
  /\ call.pc = "update"
  /\ IF call.q > Len(call.queries)
       THEN /\ call' = [call EXCEPT !.pc = "after", !.h = 1]
            /\ UNCHANGED <<log, table, arrays, heap>>
       ELSE IF ~exists(Store, call.queries[call.q].entity)
         THEN /\ call' = [call EXCEPT !.q = @ + 1]
              /\ UNCHANGED <<log, table, arrays, heap>>
         ELSE \E async \in BOOLEAN :
              IF async
                THEN /\ call' = [call EXCEPT !.pc = "awaitUpdate", !.running = TRUE]
                     /\ log' = Append(log, event("start", "update", call.q,
                                                 call.queries[call.q].entity, Store))
                     /\ UNCHANGED <<table, arrays, heap>>
                ELSE /\ call' = [call EXCEPT !.q = @ + 1]
                     /\ table' = updated(call.q).table
                     /\ arrays' = updated(call.q).arrays
                     /\ heap' = updated(call.q).heap
                     /\ log' = log \o <<event("start", "update", call.q,
                                              call.queries[call.q].entity, Store),
                                        event("end", "update", call.q,
                                              call.queries[call.q].entity, updated(call.q))>>
  /\ UNCHANGED <<scheduledSystems, hooks, lastEntityId, currentSchedule,
                 firstTime, thrown, runPc, stepLog, visited, walkSystems>>
  /\ UNCHANGED <<predLog, autoIds, restarted, returned, frozen, waiting,
                 lateFirstTime>>

\* The loop over the batch: update is called; a Promise it returns is awaited.
stepUpdate ==
  /\ call.pc = "update"
  /\ IF call.q > Len(call.queries)
       THEN /\ call' = [call EXCEPT !.pc = "after", !.h = 1]
            /\ UNCHANGED <<log, table, arrays, heap>>
       ELSE \E async \in BOOLEAN :
              IF async
                THEN /\ call' = [call EXCEPT !.pc = "awaitUpdate", !.running = TRUE]
                     /\ log' = Append(log, event("start", "update", call.q,
                                                 call.queries[call.q].entity, Store))
                     /\ UNCHANGED <<table, arrays, heap>>
                ELSE /\ call' = [call EXCEPT !.q = @ + 1]
                     /\ table' = updated(call.q).table
                     /\ arrays' = updated(call.q).arrays
                     /\ heap' = updated(call.q).heap
                     /\ log' = log \o <<event("start", "update", call.q,
                                              call.queries[call.q].entity, Store),
                                        event("end", "update", call.q,
                                              call.queries[call.q].entity, updated(call.q))>>
  /\ UNCHANGED <<scheduledSystems, hooks, lastEntityId, currentSchedule,
                 firstTime, thrown, runPc, stepLog, visited, walkSystems>>
  /\ UNCHANGED <<predLog, autoIds, restarted, returned, frozen, waiting,
                 lateFirstTime>>

\* The awaited update has committed its effects and completed: step() resumes.
stepAwaitUpdate ==
  /\ call.pc = "awaitUpdate"
  /\ call' = [call EXCEPT !.pc = "update", !.q = @ + 1, !.running = FALSE]
  /\ table' = updated(call.q).table
  /\ arrays' = updated(call.q).arrays
  /\ heap' = updated(call.q).heap
  /\ log' = Append(log, event("end", "update", call.q,
                              call.queries[call.q].entity, updated(call.q)))
  /\ UNCHANGED <<scheduledSystems, hooks, lastEntityId, currentSchedule,
                 firstTime, thrown, runPc, stepLog, visited, walkSystems>>
  /\ UNCHANGED <<predLog, autoIds, restarted, returned, frozen, waiting,
                 lateFirstTime>>

\* The loop over the hooks after the updates.
stepAfter ==
  /\ call.pc = "after"
  /\ IF call.h > Len(hooks)
       THEN /\ call' = [call EXCEPT !.pc = "select", !.i = @ + 1, !.queries = <<>>,
                                    !.h = 0, !.q = 0]
            /\ UNCHANGED log
       ELSE IF hasAfter(hooks[call.h])
         THEN \E async \in BOOLEAN :
                /\ call' = [call EXCEPT !.pc = "awaitAfter", !.running = async]
                /\ log' = log \o <<event("start", "after", call.h, 0, Store)>>
                              \o (IF async THEN <<>>
                                  ELSE <<event("end", "after", call.h, 0, Store)>>)
         ELSE /\ call' = [call EXCEPT !.h = @ + 1]
              /\ UNCHANGED log
  /\ UNCHANGED <<scheduledSystems, hooks, lastEntityId, currentSchedule, table,
                 arrays, heap, firstTime, thrown, runPc, stepLog, visited, walkSystems>>
  /\ UNCHANGED <<predLog, autoIds, restarted, returned, frozen, waiting,
                 lateFirstTime>>

\* The awaited afterSystemUpdate has completed: step() resumes.
stepAwaitAfter ==
  /\ call.pc = "awaitAfter"
  /\ call' = [call EXCEPT !.pc = "after", !.h = @ + 1, !.running = FALSE]
  /\ log' = IF call.running
              THEN Append(log, event("end", "after", call.h, 0, Store)) ELSE log
  /\ UNCHANGED <<scheduledSystems, hooks, lastEntityId, currentSchedule, table,
                 arrays, heap, firstTime, thrown, runPc, stepLog, visited, walkSystems>>
  /\ UNCHANGED <<predLog, autoIds, restarted, returned, frozen, waiting,
                 lateFirstTime>>

\* The steps of a step() call in flight.
stepRuns ==
  \/ stepSelect
  \/ stepBefore
  \/ stepAwaitBefore
  \/ stepUpdate
  \/ stepAwaitUpdate
  \/ stepAfter
  \/ stepAwaitAfter

\* -------------------------------------------------------------------- run
\* What schedule.shouldRun() returns: a boolean, or (the README's
\* DelayedUpdateSchedule) a Promise that resolves to one.
Bool(b) == [kind |-> "boolean", value |-> b]
PromiseOf(b) == [kind |-> "promise", value |-> b]

shouldRun(s) ==
  CASE s = "startup" -> Bool(firstTime)
    [] s = "update" -> Bool(TRUE)
    [] s = "delayedUpdate" -> PromiseOf(TRUE)
    [] s = "delayedStop" -> PromiseOf(FALSE)
    [] s = "late" -> Bool(lateFirstTime)

\* Mutant: StartupSchedule's predicate leaves its flag set.
firstTimeAfter_kept(s) == firstTime

\* StartupSchedule's predicate clears its flag.
firstTimeAfter(s) == IF s = "startup" THEN FALSE ELSE firstTime

\* The user's one-shot predicate clears its flag.
lateFirstTimeAfter(s) == IF s = "late" THEN FALSE ELSE lateFirstTime

\* Mutant: run() steps whatever the predicate returned.
truthy_always(v) == TRUE

\* Mutant: run() advances whatever the predicate returned.
truthy_never(v) == FALSE

\* The condition of run()'s if: the truthiness of the value, which is not awaited.
truthy(v) == IF v.kind = "boolean" THEN v.value ELSE TRUE

\* run() is called: its first advanceSchedule().
run ==
  /\ runPc = "idle"
  /\ call.pc = "idle"
  /\ advanceBody
  /\ runPc' = IF Len(scheduledSystems) = 0 THEN "rejected" ELSE "loop"
  /\ UNCHANGED <<scheduledSystems, hooks, lastEntityId, table, arrays, heap,
                 firstTime, call, log, stepLog>>
  /\ UNCHANGED <<predLog, autoIds, returned, frozen, waiting,
                 lateFirstTime>>

\* One iteration of run()'s loop, of a run() observed for at most n steps.
runLoopWithin(n) ==
  /\ runPc = "loop"
  /\ IF currentSchedule = NULL
       THEN /\ runPc' = "done"
            /\ UNCHANGED <<currentSchedule, firstTime, lateFirstTime, thrown, call,
                           log, stepLog, visited, walkSystems, predLog, restarted>>
       ELSE /\ firstTime' = firstTimeAfter(currentSchedule)
            /\ lateFirstTime' = lateFirstTimeAfter(currentSchedule)
            /\ predLog' = Append(predLog, [schedule |-> currentSchedule,
                                           value |-> shouldRun(currentSchedule)])
            /\ IF truthy(shouldRun(currentSchedule))
                 THEN /\ Len(stepLog) < n
                      /\ stepBegin(currentSchedule, "run")
                      /\ runPc' = "step"
                      /\ UNCHANGED <<currentSchedule, thrown, visited, walkSystems,
                                     restarted>>
                 ELSE /\ Len(visited) < MaxVisited
                      /\ advanceBody
                      /\ UNCHANGED <<runPc, call, log, stepLog>>
  /\ UNCHANGED <<scheduledSystems, hooks, lastEntityId, table, arrays, heap, autoIds,
                 returned, frozen, waiting>>

runLoop == runLoopWithin(MaxSteps)

\* ------------------------------------------------------------------ specs
\* The builder chain (new App().addEntity(..).addSystem(..).addHook(..)):
\* registrations come before the first step() or run().
Building == runPc = "idle" /\ call.pc = "idle" /\ stepLog = <<>> /\ visited = <<>>

\* The tests' entities, and entity 15 without its Velocity.
EntityInputs ==
  {[id |-> 10, batch |-> <<Position(0, 0), Velocity(1, 1)>>],
   [id |-> 15, batch |-> <<Position(5, 5), Velocity(-1, -1)>>],
   [id |-> 15, batch |-> <<Position(5, 5)>>]}

\* The scheduler alone: systems are registered and the cursor is advanced by hand.
NextSched ==
  \/ \E s \in Schedules : Len(scheduledSystems) < MaxSystems /\ addSystem(s, "Noop")
  \/ advanceSchedule

SpecSched == Init /\ [][NextSched]_vars

\* step() by hand on an app built from the tests' entities and from every
\* system class, observed by at most MaxStepHooks hooks.
NextStep ==
  \/ \E e \in EntityInputs : Building /\ ~exists(Store, e.id) /\ addEntity(e.id, e.batch)
  \/ \E k \in Systems : Building /\ Len(scheduledSystems) < MaxStepSystems
                                  /\ addSystem("update", k)
  \/ Building /\ Len(scheduledSystems) < MaxStepSystems
              /\ addSystem("startup", "IncreaseXByOne")
  \/ Building /\ Len(hooks) < MaxStepHooks /\ addHook("both")
  \/ \E s \in {"startup", "update"} : Len(stepLog) < MaxUserSteps /\ step(s)
  \/ stepRuns

SpecStep == Init /\ [][NextStep]_vars

\* step() by hand on an app built from the tests' entities and systems,
\* observed by hooks of every kind.
NextHooks ==
  \/ \E e \in EntityInputs : Building /\ ~exists(Store, e.id) /\ addEntity(e.id, e.batch)
  \/ \E k \in {"IncreaseXByOne", "Movement"} :
        Building /\ Len(scheduledSystems) < MaxStepSystems /\ addSystem("update", k)
  \/ \E hk \in HookKinds : Building /\ Len(hooks) < MaxHooks /\ addHook(hk)
  \/ Len(stepLog) < MaxUserSteps /\ step("update")
  \/ stepRuns

SpecHooks == Init /\ [][NextHooks]_vars

\* run() on an app built from the tests' entities and systems.
NextRun ==
  \/ \E e \in EntityInputs : Building /\ ~exists(Store, e.id) /\ addEntity(e.id, e.batch)
  \/ \E s \in Schedules, k \in {"IncreaseXByOne", "Noop"} :
        Building /\ Len(scheduledSystems) < MaxRunSystems /\ addSystem(s, k)
  \/ Building /\ Len(hooks) < MaxStepHooks /\ addHook("both")
  \/ run
  \/ runLoop
  \/ stepRuns

SpecRun == Init /\ [][NextRun]_vars

\* The table called directly, as its tests do, and through addEntity with
\* given and generated ids: entities 0 and 10, the tests' components.
TableEntities == {0, 10}

\* The component classes of the tests.
TypeNames == {"Position", "Velocity"}

\* The type lists of a find(): up to two classes, in either order, repeated or not.
TypeLists ==
  {<<>>} \cup {<<a>> : a \in TypeNames} \cup {<<a, b>> : a \in TypeNames, b \in TypeNames}

ComponentInputs == {Position(0, 0), Velocity(1, 1)}

BatchInputs ==
  {<<>>, <<Position(0, 0)>>, <<Velocity(1, 1)>>,
   <<Position(0, 0), Velocity(1, 1)>>, <<Velocity(1, 1), Position(0, 0)>>}

NextTable ==
  \/ \E e \in TableEntities, c \in ComponentInputs :
        Len(heap) < MaxComponents /\ Len(arrays) < MaxArrays /\ tableAdd(e, c)
  \/ \E e \in TableEntities, b \in BatchInputs :
        Len(heap) + Len(b) <= MaxComponents /\ Len(arrays) < MaxArrays /\ tableAddAll(e, b)
  \/ \E e \in TableEntities \cup {1} : tableDelete(e)
  \/ \E b \in BatchInputs :
        /\ exists(Store, 10)
             \/ (Len(heap) + Len(b) <= MaxComponents /\ Len(arrays) < MaxArrays)
        /\ addEntity(10, b)
  \/ \E b \in BatchInputs :
        /\ exists(Store, lastEntityId)
             \/ (Len(heap) + Len(b) <= MaxComponents /\ Len(arrays) < MaxArrays)
        /\ addEntity(NoId, b)

SpecTable == Init /\ [][NextTable]_vars

\* A client of the table: add, delete and the lookups, as the tests of
\* Has, Get, GetAll and Find call them.
NextClient ==
  \/ \E e \in TableEntities, c \in ComponentInputs :
        Len(heap) < MaxComponents /\ Len(arrays) < MaxArrays /\ tableAdd(e, c)
  \/ \E e \in TableEntities : tableDelete(e)
  \/ \E e \in TableEntities, t \in TypeNames : callHas(e, t)
  \/ \E e \in TableEntities, S \in TypeLists : callHasAll(e, S)
  \/ \E e \in TableEntities, t \in TypeNames : callGet(e, t)
  \/ \E e \in TableEntities : callGetAll(e)
  \/ \E S \in TypeLists : callFind(S)

SpecClient == Init /\ [][NextClient]_vars

\* The batches of the calls that share an array.
SharedBatches == {<<Position(0, 0)>>}

\* The table with arrays that are passed more than once: addAll with a new
\* array or with one that exists already, add and delete.
NextShared ==
  \/ \E e \in TableEntities :
        /\ Len(heap) < MaxComponents
        /\ IF exists(Store, e) THEN TRUE ELSE Len(arrays) < MaxArrays
        /\ tableAdd(e, Velocity(1, 1))
  \/ \E e \in TableEntities, b \in SharedBatches :
        Len(heap) + Len(b) <= MaxComponents /\ Len(arrays) < MaxArrays /\ tableAddAll(e, b)
  \/ \E e \in TableEntities, b \in 1..Len(arrays) :
        /\ IF exists(Store, e)
             THEN 2 * Len(arrays[tableGet(Store, e)]) <= MaxComponents
             ELSE TRUE
        /\ tableAddAllArray(e, b)
  \/ \E e \in TableEntities : tableDelete(e)

SpecShared == Init /\ [][NextShared]_vars

\* The app's table handed out by getArchetypeTable() and called through
\* the reference returned.
NextFrozen ==
  \/ \E b \in BatchInputs :
        /\ ~frozen /\ ~exists(Store, 10)
        /\ Len(heap) + Len(b) <= MaxComponents /\ Len(arrays) < MaxArrays
        /\ addEntity(10, b)
  \/ getArchetypeTable
  \/ \E e \in TableEntities, c \in ComponentInputs :
        frozen /\ Len(heap) < MaxComponents /\ Len(arrays) < MaxArrays /\ tableAdd(e, c)
  \/ \E e \in TableEntities, b \in BatchInputs :
        /\ frozen
        /\ Len(heap) + Len(b) <= MaxComponents /\ Len(arrays) < MaxArrays
        /\ tableAddAll(e, b)
  \/ \E e \in TableEntities : frozen /\ tableDelete(e)

SpecFrozen == Init /\ [][NextFrozen]_vars

\* The tests' fixture of the movement system: entities 10 and 15, the
\* systems MovementSystem and NoopSystem on update, stepped by hand.
NextMove ==
  \/ \E e \in EntityInputs : Building /\ ~exists(Store, e.id) /\ addEntity(e.id, e.batch)
  \/ \E k \in {"Movement", "Noop"} :
        Building /\ Len(scheduledSystems) < MaxStepSystems /\ addSystem("update", k)
  \/ Building /\ Len(hooks) < MaxStepHooks /\ addHook("both")
  \/ Len(stepLog) < MaxMoveSteps /\ step("update")
  \/ stepRuns

SpecMove == Init /\ [][NextMove]_vars

\* run() on an app whose systems are bound to the library's schedules and
\* to a schedule of the user's, in every registration order.
NextOrder ==
  \/ Building /\ ~exists(Store, 10)
              /\ addEntity(10, <<Position(0, 0), Velocity(1, 1)>>)
  \/ \E s \in {"startup", "update"} \cup UserSchedules :
        Building /\ Len(scheduledSystems) < MaxSystems /\ addSystem(s, "IncreaseXByOne")
  \/ Building /\ Len(hooks) < MaxStepHooks /\ addHook("both")
  \/ run
  \/ runLoopWithin(MaxOrderSteps)
  \/ stepRuns

SpecOrder == Init /\ [][NextOrder]_vars

\* step() on an app whose systems delete and add entities during update.
NextBatch ==
  \/ \E e \in EntityInputs : Building /\ ~exists(Store, e.id) /\ addEntity(e.id, e.batch)
  \/ \E k \in BatchSystems \cup {"IncreaseXByOne", "Despawn"} :
        Building /\ Len(scheduledSystems) < MaxStepSystems /\ addSystem("update", k)
  \/ Building /\ Len(hooks) < MaxStepHooks /\ addHook("both")
  \/ Len(stepLog) < MaxUserSteps /\ step("update")
  \/ stepRuns

SpecBatch == Init /\ [][NextBatch]_vars

\* step() on an app observed by a hook that writes to the components it is
\* given and by one that records them.
LiveHooks == {"nudge", "both"}

NextLive ==
  \/ Building /\ ~exists(Store, 10) /\ addEntity(10, <<Position(0, 0), Velocity(1, 1)>>)
  \/ Building /\ ~exists(Store, 15) /\ addEntity(15, <<Position(5, 5)>>)
  \/ \E k \in {"IncreaseXByOne", "Movement"} :
        Building /\ Len(scheduledSystems) < MaxStepSystems /\ addSystem("update", k)
  \/ \E hk \in LiveHooks : Building /\ Len(hooks) < MaxHooks /\ addHook(hk)
  \/ Len(stepLog) < MaxUserSteps /\ step("update")
  \/ stepRuns

SpecLive == Init /\ [][NextLive]_vars

\* Two step() calls on one app, the second made before the first has
\* settled.
NextOverlap ==
  \/ Building /\ ~exists(Store, 10) /\ addEntity(10, <<Position(0, 0), Velocity(1, 1)>>)
  \/ Building /\ Len(scheduledSystems) < MaxOverlapSystems
              /\ addSystem("update", "IncreaseXByOne")
  \/ Building /\ Len(hooks) < MaxStepHooks /\ addHook("both")
  \/ waiting = <<>> /\ Len(stepLog) < MaxUserSteps /\ step("update")
  \/ Len(stepLog) < MaxSteps /\ stepAgain("update")
  \/ resume
  \/ stepRuns

SpecOverlap == Init /\ [][NextOverlap]_vars

\* The app driven by hand and by run(): registrations at any time the app
\* is at rest, advanceSchedule() and step() by hand before run() is called
\* and after it has returned.
AtRest == runPc \in {"idle", "done"} /\ call.pc = "idle"

NextManual ==
  \/ AtRest /\ ~exists(Store, 10) /\ addEntity(10, <<Position(0, 0), Velocity(1, 1)>>)
  \/ \E s \in {"startup", "update"} :
        AtRest /\ Len(scheduledSystems) < MaxRunSystems /\ addSystem(s, "IncreaseXByOne")
  \/ AtRest /\ Len(hooks) < MaxStepHooks /\ addHook("both")
  \/ AtRest /\ Len(visited) < MaxManualMoves /\ advanceSchedule
  \/ \E s \in {"startup", "update"} : Len(stepLog) < MaxSteps /\ step(s)
  \/ run
  \/ runLoop
  \/ stepRuns

SpecManual == Init /\ [][NextManual]_vars

\* Entities registered with ids the caller gives and with generated ids,
\* and deleted from the table as a system's update may do.
GivenIds == {0, 1}

NextIds ==
  \/ \E id \in GivenIds, b \in BatchInputs :
        /\ IF exists(Store, id) THEN TRUE
           ELSE Len(heap) + Len(b) <= MaxComponents /\ Len(arrays) < MaxArrays
        /\ addEntity(id, b)
  \/ \E b \in BatchInputs :
        /\ IF exists(Store, lastEntityId) THEN TRUE
           ELSE Len(heap) + Len(b) <= MaxComponents /\ Len(arrays) < MaxArrays
        /\ addEntity(NoId, b)
  \/ \E e \in GivenIds : tableDelete(e)

SpecIds == Init /\ [][NextIds]_vars

\* The whole of the app's interface: the builder chain, advanceSchedule() by
\* hand and run().
NextApi ==
  \/ \E e \in EntityInputs : Building /\ ~exists(Store, e.id) /\ addEntity(e.id, e.batch)
  \/ \E s \in {"startup", "update"} :
        Building /\ Len(scheduledSystems) < MaxRunSystems /\ addSystem(s, "IncreaseXByOne")
  \/ Building /\ Len(hooks) < MaxStepHooks /\ addHook("both")
  \/ runPc = "idle" /\ call.pc = "idle" /\ advanceSchedule
  \/ run
  \/ runLoop
  \/ stepRuns

SpecApi == Init /\ [][NextApi]_vars

\* ----------------------------------------------------------------- claims
\* The distinct registered schedules in ascending order.
sortedDistinct == distinctSeq(sortByOrder(schedulesOf(scheduledSystems)))

registered == {scheduledSystems[i].schedule : i \in 1..Len(scheduledSystems)}

\* C1: an advanceSchedule() with a schedule as cursor sets the cursor to the
\* schedule after it in the distinct registered schedules sorted by order,
\* and to null after the last one.
C1_AdvanceFollowsSortedDistinct ==
  [][(advanceSchedule /\ currentSchedule # NULL)
       => currentSchedule' = successor(sortedDistinct, currentSchedule)]_vars

\* C2: an advanceSchedule() with a null cursor sets the cursor to a registered
\* schedule of the lowest order, whatever the registration order; with only
\* startup and update registered that is startup.
C2_FirstAdvanceLowestOrder ==
  [][(advanceSchedule /\ currentSchedule = NULL /\ scheduledSystems # <<>>)
       => /\ currentSchedule' \in registered
          /\ \A s \in registered : order(currentSchedule') <= order(s)
          /\ registered = {"startup", "update"} => currentSchedule' = "startup"]_vars

\* update was registered first and the first advance still chose startup.
C2_Witness ==
  /\ Len(scheduledSystems) >= 2
  /\ scheduledSystems[1].schedule = "update"
  /\ currentSchedule = "startup"
  /\ visited = <<"startup">>

\* C3: with the registrations unchanged since the cursor left null, the
\* cursors set so far are the distinct registered schedules in ascending
\* order, each once: a prefix of them ending in the cursor while the walk
\* runs, and all of them once the cursor is null again.
C3_WalkVisitsEachOnce ==
  (visited # <<>> /\ walkSystems = Len(scheduledSystems))
    => IF currentSchedule = NULL
         THEN visited = sortedDistinct
         ELSE /\ Len(visited) <= Len(sortedDistinct)
              /\ visited = SubSeq(sortedDistinct, 1, Len(visited))
              /\ visited[Len(visited)] = currentSchedule

\* C4: with the entries registered as startup, update, update, an
\* advanceSchedule() made while the cursor is update leaves it on update.
C4_UpdateStaysInFixture ==
  [][(/\ advanceSchedule
      /\ schedulesOf(scheduledSystems) = <<"startup", "update", "update">>
      /\ currentSchedule = "update")
       => currentSchedule' = "update"]_vars

\* The fixture's cursor was advanced while it was on update.
C4_Witness ==
  /\ schedulesOf(scheduledSystems) = <<"startup", "update", "update">>
  /\ visited = <<"startup", "update", "update">>
  /\ currentSchedule = "update"

\* C5: under run() with startup and update systems registered, at most one
\* step() is made for startup, no step() of update comes before it, and
\* run() does not end without having stepped update.
C5_StartupOnceThenUpdate ==
  (runPc # "idle" /\ registered = {"startup", "update"})
    => /\ Cardinality({i \in 1..Len(stepLog) : stepLog[i] = "startup"}) <= 1
       /\ stepLog # <<>> => stepLog[1] = "startup"
       /\ runPc = "done" => \E i \in 1..Len(stepLog) : stepLog[i] = "update"

\* ------------------------------------------------- claims about one step
\* The place of an event in the order step() prescribes: by system, then
\* select, hooks before, updates, hooks after, then by hook or query index.
phase(cb) == CASE cb = "select" -> 0 [] cb = "before" -> 1
               [] cb = "update" -> 2 [] cb = "after" -> 3

precedes(a, b) ==
  \/ a.sys < b.sys
  \/ /\ a.sys = b.sys
     /\ \/ phase(a.cb) < phase(b.cb)
        \/ /\ a.cb = b.cb
           /\ \/ a.idx < b.idx
              \/ a.idx = b.idx /\ a.ev = "start" /\ b.ev = "end"

\* The history holds the event ev of callback cb with index idx for entry sys.
logged(ev, cb, sys, idx) ==
  \E i \in 1..Len(log) :
    log[i].ev = ev /\ log[i].cb = cb /\ log[i].sys = sys /\ log[i].idx = idx

count(ev, cb, sys, idx) ==
  Cardinality({i \in 1..Len(log) :
    log[i].ev = ev /\ log[i].cb = cb /\ log[i].sys = sys /\ log[i].idx = idx})

\* step() has left entry sys behind.
sysDone(sys) ==
  \/ call.pc = "idle"
  \/ call.i > Len(call.entries)
  \/ call.entries[call.i] > sys

\* The hook classes that implement a callback.
implements(hook, cb) ==
  IF cb = "before" THEN hook \in {"both", "beforeOnly"} ELSE hook \in {"both", "afterOnly"}

entitiesOf(queries) == {queries[k].entity : k \in 1..Len(queries)}

systemOf(e) == scheduledSystems[e.sys].system

\* C6: within one step, per entry in registration order: the hooks'
\* beforeSystemUpdate in hook order, all before the first update; update once
\* per query in result order; the hooks' afterSystemUpdate in hook order, all
\* after the last update. A before-hook sees the values select() saw, an
\* after-hook the values the last update left.
C6_HookUpdateOrder ==
  /\ \A i \in 1..(Len(log) - 1) : precedes(log[i], log[i + 1])
  /\ \A i \in 1..Len(log) :
       LET e == log[i] IN
       /\ (e.cb = "update" /\ e.ev = "start" /\ e.idx = 1)
            => \A h \in 1..Len(hooks) :
                 implements(hooks[h], "before") => logged("end", "before", e.sys, h)
       /\ e.cb = "update"
            => e.idx \in 1..Len(e.queries) /\ e.entity = e.queries[e.idx].entity
       /\ (e.cb = "after" /\ e.ev = "start")
            => \A k \in 1..Len(e.queries) : logged("end", "update", e.sys, k)
       /\ (e.ev = "select" /\ e.queries # <<>> /\ sysDone(e.sys))
            => \A h \in 1..Len(hooks) :
                 implements(hooks[h], "after") => logged("end", "after", e.sys, h)
       /\ e.cb = "before"
            => \E j \in 1..(i - 1) :
                 log[j].ev = "select" /\ log[j].sys = e.sys /\ log[j].seen = e.seen
       /\ e.cb = "after"
            => \E j \in 1..(i - 1) :
                 /\ log[j].ev = "end" /\ log[j].cb = "update" /\ log[j].sys = e.sys
                 /\ log[j].idx = Len(e.queries) /\ log[j].seen = e.seen

\* Two hooks ran before and after the two updates of one system, which
\* changed what they saw, and a second system ran after it.
C6_Witness ==
  /\ call.pc = "idle"
  /\ \E i, j \in 1..Len(log) :
       /\ log[i].cb = "before" /\ log[i].idx = 2
       /\ log[j].cb = "after" /\ log[j].idx = 2 /\ log[j].sys = log[i].sys
       /\ Len(log[i].queries) = 2
       /\ log[i].seen # log[j].seen
       /\ \E k \in 1..Len(log) : log[k].cb = "update" /\ log[k].sys > log[i].sys

\* C7: a system whose select() returned an empty sequence gets no hook call
\* and no update call in that step, and the step still selects every entry
\* of its schedule and updates every query of the non-empty selections.
C7_EmptySelectionSkipped ==
  /\ \A i \in 1..Len(log) :
       (log[i].ev = "select" /\ log[i].queries = <<>>)
         => \A j \in 1..Len(log) : j # i => log[j].sys # log[i].sys
  /\ (call.pc = "idle" /\ stepLog # <<>>)
       => \A n \in 1..Len(scheduledSystems) :
            scheduledSystems[n].schedule = stepLog[Len(stepLog)]
              => \E i \in 1..Len(log) :
                   /\ log[i].ev = "select" /\ log[i].sys = n
                   /\ \A k \in 1..Len(log[i].queries) : logged("end", "update", n, k)

\* A step with a hook returned: the first entry selected nothing, the second
\* entry of the same schedule was updated and observed by the hook.
C7_Witness ==
  /\ call.pc = "idle"
  /\ hooks # <<>>
  /\ \E i, j, k \in 1..Len(log) :
       /\ log[i].ev = "select" /\ log[i].queries = <<>>
       /\ log[j].cb = "update" /\ log[j].sys > log[i].sys
       /\ log[k].cb = "before" /\ log[k].sys = log[j].sys

\* C8: per system execution with a non-empty selection every hook's
\* beforeSystemUpdate and afterSystemUpdate is called exactly once if the
\* hook implements it and never if it does not, with the whole batch
\* select() returned.
C8_HooksOncePerSystem ==
  \A i \in 1..Len(log) :
    LET e == log[i] IN
    /\ (e.cb \in {"before", "after"})
         => /\ count(e.ev, e.cb, e.sys, e.idx) = 1
            /\ implements(hooks[e.idx], e.cb)
            /\ \E j \in 1..(i - 1) :
                 log[j].ev = "select" /\ log[j].sys = e.sys /\ log[j].queries = e.queries
    /\ (e.ev = "select" /\ e.queries # <<>> /\ sysDone(e.sys))
         => \A h \in 1..Len(hooks) :
              /\ count("start", "before", e.sys, h) = (IF implements(hooks[h], "before") THEN 1 ELSE 0)
              /\ count("start", "after", e.sys, h) = (IF implements(hooks[h], "after") THEN 1 ELSE 0)

\* A step returned in which a before-only and an after-only hook observed a
\* batch of two queries.
C8_Witness ==
  /\ call.pc = "idle"
  /\ hooks = <<"beforeOnly", "afterOnly">>
  /\ \E i, j \in 1..Len(log) :
       /\ log[i].cb = "before" /\ log[i].idx = 1 /\ Len(log[i].queries) = 2
       /\ log[j].cb = "after" /\ log[j].idx = 2 /\ log[j].sys = log[i].sys

\* C9: no callback starts before the callback started last has completed:
\* a started callback's end is the next callback event, and while it is
\* missing step() is waiting for it.
C9_OneCallbackAtATime ==
  \A i \in 1..Len(log) :
    log[i].ev = "start"
      => IF i = Len(log)
           THEN call.running /\ call.pc \in {"awaitBefore", "awaitUpdate", "awaitAfter"}
           ELSE /\ log[i + 1].ev = "end"
                /\ log[i + 1].cb = log[i].cb
                /\ log[i + 1].sys = log[i].sys
                /\ log[i + 1].idx = log[i].idx

\* An asynchronous update is in progress after a hook's callback and an
\* earlier update have completed.
C9_Witness ==
  /\ call.pc = "awaitUpdate"
  /\ call.running
  /\ call.q = 2
  /\ logged("end", "before", call.entries[call.i], 1)
  /\ log[Len(log)].ev = "start"

\* C10: a later system's select() comes after every event of the earlier
\* systems of the step and sees their effects: an entity an earlier update
\* deleted is in no later batch, an entity an earlier update added is in the
\* later batch of a system selecting its component.
C10_LaterSelectSeesEffects ==
  \A p \in 1..Len(log) :
    LET e == log[p] IN
    /\ e.ev = "select" => \A j \in 1..(p - 1) : log[j].sys < e.sys
    /\ (e.ev = "end" /\ e.cb = "update" /\ systemOf(e) = "Despawn")
         => \A j \in (p + 1)..Len(log) :
              log[j].sys > e.sys => e.entity \notin entitiesOf(log[j].queries)
    /\ (e.ev = "end" /\ e.cb = "update" /\ systemOf(e) = "Spawn")
         => \A j \in (p + 1)..Len(log) :
              (log[j].sys > e.sys /\ systemOf(log[j]) = "IncreaseXByOne")
                => (e.entity + 1) \in entitiesOf(log[j].queries)

\* Entity 10 was deleted by the first system's update and the second system
\* was then updated on a batch without it.
C10_Witness ==
  \E p, j \in 1..Len(log) :
    /\ log[p].ev = "end" /\ log[p].cb = "update" /\ systemOf(log[p]) = "Despawn"
    /\ log[p].entity = 10
    /\ j > p /\ log[j].sys > log[p].sys /\ log[j].cb = "update"
    /\ systemOf(log[j]) = "IncreaseXByOne"

\* ------------------------------------------------------ claims about run()
\* C11: an iteration of run()'s loop with a schedule as cursor evaluates that
\* schedule's predicate once; when it returned true one step(cursor) begins
\* and the cursor stays, when it returned false no step begins and the cursor
\* is the one advanceSchedule() assigns; run() returns only from an iteration
\* that found the cursor null.
C11_RunLoopStepsOrAdvances ==
  [][/\ runPc' = "done" => currentSchedule' = NULL
     /\ runLoop =>
          IF currentSchedule = NULL
            THEN runPc' = "done" /\ predLog' = predLog /\ stepLog' = stepLog
            ELSE /\ Len(predLog') = Len(predLog) + 1
                 /\ predLog'[Len(predLog')].schedule = currentSchedule
                 /\ runPc' # "done"
                 /\ predLog'[Len(predLog')].value = Bool(TRUE)
                      => /\ stepLog' = Append(stepLog, currentSchedule)
                         /\ call'.pc = "select" /\ call'.schedule = currentSchedule
                         /\ currentSchedule' = currentSchedule
                 /\ predLog'[Len(predLog')].value = Bool(FALSE)
                      => /\ stepLog' = stepLog /\ call' = call
                         /\ currentSchedule' = nextSchedule(scheduledSystems, currentSchedule)]_vars

\* run() returned after the predicate of startup returned true, then false:
\* one step of startup was made.
C11_Witness ==
  /\ runPc = "done"
  /\ stepLog = <<"startup">>
  /\ predLog = <<[schedule |-> "startup", value |-> Bool(TRUE)],
                 [schedule |-> "startup", value |-> Bool(FALSE)]>>

\* C12: when the predicate of the cursor's schedule returns a Promise, run()
\* acts on the boolean it resolves to: resolved to true, one step(cursor)
\* begins and the cursor stays; resolved to false, no step begins and the
\* cursor is the one advanceSchedule() assigns.
C12_AsyncPredicateDecides ==
  [][(runLoop /\ currentSchedule # NULL
        /\ predLog'[Len(predLog')].value.kind = "promise")
       => IF predLog'[Len(predLog')].value.value
            THEN /\ stepLog' = Append(stepLog, currentSchedule)
                 /\ currentSchedule' = currentSchedule
            ELSE /\ stepLog' = stepLog
                 /\ currentSchedule' = nextSchedule(scheduledSystems, currentSchedule)]_vars

\* C20: startup's predicate returns true on its first evaluation and false on
\* every later one, update's predicate returns true on every evaluation, and
\* their orders are 0 and 1.
C20_BuiltInPredicates ==
  /\ order("startup") = 0
  /\ order("update") = 1
  /\ \A i \in 1..Len(predLog) :
       /\ predLog[i].schedule = "startup"
            => predLog[i].value = Bool(\A j \in 1..(i - 1) : predLog[j].schedule # "startup")
       /\ predLog[i].schedule = "update" => predLog[i].value = Bool(TRUE)

\* startup's predicate was evaluated twice and update's after it.
C20_Witness ==
  /\ Len(predLog) >= 3
  /\ predLog[1].schedule = "startup"
  /\ predLog[2].schedule = "startup"
  /\ predLog[3].schedule = "update"

\* ---------------------------------------------------- claims about the table
\* The entity ids used: the given ones, the generated ones and those in the table.
knownEntities ==
  TableEntities \cup {1} \cup {table[i].entity : i \in 1..Len(table)}

\* The store of the next state.
StoreNext == [table |-> table', arrays |-> arrays', heap |-> heap']

\* The positions of entity e in the result of find(types).
findHits(st, types, e) ==
  LET queries == find(st, types)
  IN {k \in 1..Len(queries) : queries[k].entity = e}

\* The component values of an existing entity, in the order of getAll.
valuesOf(st, e) ==
  LET items == getAll(st, e).items
  IN [i \in 1..Len(items) |-> st.heap[items[i]]]

\* C13: for every entity and type list, the entity is in find(S) iff
\* hasAll(e, S); a matching entity appears once, and the i-th element of its
\* tuple is one of its components and of the i-th requested type, whatever
\* the order the components were inserted in.
C13_FindMatchesHasAll ==
  \A S \in TypeLists :
    \A e \in knownEntities :
      /\ (findHits(Store, S, e) # {}) <=> hasAll(Store, e, S)
      /\ Cardinality(findHits(Store, S, e)) <= 1
      /\ \A k \in findHits(Store, S, e) :
           LET components == find(Store, S)[k].components IN
           /\ Len(components) = Len(S)
           /\ \A i \in 1..Len(S) :
                /\ heap[components[i]].type = S[i]
                /\ \E n \in 1..Len(getAll(Store, e).items) :
                     getAll(Store, e).items[n] = components[i]

\* Entity 10 got its Velocity before its Position and entity 0 has no
\* Velocity: find(Position, Velocity) returns entity 10 alone, as
\* (Position, Velocity).
C13_Witness ==
  /\ exists(Store, 10) /\ exists(Store, 0)
  /\ Len(getAll(Store, 10).items) = 2
  /\ heap[getAll(Store, 10).items[1]].type = "Velocity"
  /\ heap[getAll(Store, 10).items[2]].type = "Position"
  /\ has(Store, 0, "Position") /\ ~has(Store, 0, "Velocity")
  /\ Len(find(Store, <<"Position", "Velocity">>)) = 1
  /\ find(Store, <<"Position", "Velocity">>)[1].entity = 10

\* C14: addAll(e, batch) on an entity that has components leaves getAll(e)
\* as the previous list followed by the batch: the previous objects keep
\* their places, the batch's values follow, no object appears twice.
C14_AddAllAppends ==
  [][\A e \in TableEntities, b \in BatchInputs :
       (tableAddAll(e, b) /\ exists(Store, e) /\ getAll(Store, e).items # <<>>)
         => /\ valuesOf(StoreNext, e) = valuesOf(Store, e) \o b
            /\ SubSeq(getAll(StoreNext, e).items, 1, Len(getAll(Store, e).items))
                 = getAll(Store, e).items
            /\ \A i, j \in 1..Len(getAll(StoreNext, e).items) :
                 getAll(StoreNext, e).items[i] = getAll(StoreNext, e).items[j] => i = j]_vars

\* C15: an entity key exists in the store iff the entity has a component:
\* exists(e) iff getAll(e) is a non-empty list.
C15_ExistsIffHasComponent ==
  \A e \in knownEntities :
    exists(Store, e) <=> (getAll(Store, e).defined /\ getAll(Store, e).items # <<>>)

\* Entity e is absent: it does not exist, has no list, has no type and is in
\* no find() result.
absent(st, e) ==
  /\ ~exists(st, e)
  /\ getAll(st, e) = Undefined
  /\ \A t \in TypeNames : ~has(st, e, t)
  /\ \A S \in TypeLists : findHits(st, S, e) = {}

\* The step is a call that adds entity e.
addsEntity(e) ==
  \/ \E c \in ComponentInputs : tableAdd(e, c)
  \/ \E b \in BatchInputs : tableAddAll(e, b)
  \/ \E b \in BatchInputs : addEntity(e, b)
  \/ \E b \in BatchInputs : lastEntityId = e /\ addEntity(NoId, b)

\* C16: delete(e) leaves e absent, and an absent e stops being absent only
\* by a call that adds it again.
C16_DeleteCompleteness ==
  [][\A e \in TableEntities \cup {1} :
       /\ tableDelete(e) => absent(StoreNext, e)
       /\ (absent(Store, e) /\ ~absent(StoreNext, e)) => addsEntity(e)]_vars

\* Components were added and every entity holding them was deleted.
C16_Witness ==
  /\ table = <<>>
  /\ Len(heap) >= 2
  /\ Len(arrays) >= 2

\* C17: addEntity with an id that exists raises the duplicate-entity error
\* and leaves the store unchanged: every entity keeps its components.
C17_DuplicateRejected ==
  [][\A id \in {NoId, 10}, b \in BatchInputs :
       (addEntity(id, b) /\ exists(Store, IF id = NoId THEN lastEntityId ELSE id))
         => /\ thrown' = ErrDuplicate
            /\ StoreNext = Store
            /\ \A e \in knownEntities : getAll(StoreNext, e) = getAll(Store, e)]_vars

\* The second registration of entity 10 was rejected; entity 10 and another
\* entity hold their components.
C17_Witness ==
  /\ thrown = ErrDuplicate
  /\ getAll(Store, 10).items # <<>>
  /\ exists(Store, 0)

\* C19: every addEntity(null, ...) uses a generated id greater than every id
\* generated before, the next integer each time, and registers its entity
\* under that id unless the id is taken.
C19_GeneratedIdsIncrease ==
  [][\A b \in BatchInputs :
       addEntity(NoId, b)
         => /\ Len(autoIds') = Len(autoIds) + 1
            /\ \A i \in 1..Len(autoIds) : autoIds[i] < autoIds'[Len(autoIds')]
            /\ autoIds # <<>> => autoIds'[Len(autoIds')] = autoIds[Len(autoIds)] + 1
            /\ thrown' = NoError
                 => /\ ~exists(Store, autoIds'[Len(autoIds')])
                    /\ valuesOf(StoreNext, autoIds'[Len(autoIds')]) = b]_vars

\* Two entities were registered under generated ids.
C19_Witness ==
  /\ Len(autoIds) >= 2
  /\ thrown = NoError
  /\ exists(Store, autoIds[1])
  /\ exists(Store, autoIds[2])

\* ----------------------------------------------------- claims about errors
\* C18: advanceSchedule() without a registered system raises the no-systems
\* error and leaves the cursor; run() without a registered system reports
\* that error and makes no step.
C18_NoSystemsError ==
  [][/\ (advanceSchedule /\ scheduledSystems = <<>>)
          => thrown' = ErrNoSystems /\ currentSchedule' = currentSchedule
     /\ (run /\ scheduledSystems = <<>>)
          => /\ thrown' = ErrNoSystems
             /\ runPc' = "rejected"
             /\ currentSchedule' = currentSchedule
             /\ stepLog' = stepLog /\ call' = call
     /\ runPc = "rejected" => (stepLog' = stepLog /\ call' = call)]_vars

\* run() was rejected on an app that has entities and no system.
C18_Witness ==
  /\ runPc = "rejected"
  /\ thrown = ErrNoSystems
  /\ table # <<>>
  /\ stepLog = <<>>

\* ------------------------------------------- claims about the cursor, again
\* C21: with the cursor null again after a walk, advanceSchedule() takes the
\* first-call branch: the cursor becomes a registered schedule of the lowest
\* order, the first of them registered, and the walk starts again.
C21_RestartAfterFinished ==
  [][(advanceSchedule /\ currentSchedule = NULL /\ visited # <<>>)
       => /\ currentSchedule' # NULL
          /\ currentSchedule' \in registered
          /\ \A s \in registered : order(currentSchedule') <= order(s)
          /\ \A i \in 1..Len(scheduledSystems) :
               order(scheduledSystems[i].schedule) = order(currentSchedule')
                 => \E j \in 1..i : scheduledSystems[j].schedule = currentSchedule'
          /\ visited' = <<currentSchedule'>>]_vars

\* The cursor left null a second time: with update registered before
\* startup the walk started again at startup.
C21_Witness ==
  /\ restarted
  /\ schedulesOf(scheduledSystems) = <<"update", "startup">>
  /\ currentSchedule = "startup"
  /\ visited = <<"startup">>

\* C22: run() returns only after the cursor's predicate returned false and
\* the advance left the cursor null; with update as cursor every iteration of
\* the loop begins a step of update, the cursor stays update and run() does
\* not return.
C22_RunNeverLeavesUpdate ==
  [][/\ (runPc \in {"loop", "step"} /\ currentSchedule = "update")
          => /\ currentSchedule' = "update"
             /\ runPc' \in {"loop", "step"}
             /\ runLoop => (stepLog' = Append(stepLog, "update") /\ runPc' = "step")
     /\ (runPc # "done" /\ runPc' = "done")
          => /\ currentSchedule = NULL
             /\ predLog # <<>>
             /\ predLog[Len(predLog)].value = Bool(FALSE)]_vars

\* run() has stepped update twice in a row and is at its loop again.
C22_Witness ==
  /\ runPc = "loop"
  /\ call.pc = "idle"
  /\ currentSchedule = "update"
  /\ Len(stepLog) >= 2
  /\ stepLog[Len(stepLog)] = "update"
  /\ stepLog[Len(stepLog) - 1] = "update"

\* ------------------------------------------------ claims about the movement
\* The batch entity id was registered with, told by its number of components.
initialOf(id, len) ==
  (CHOOSE e \in EntityInputs : e.id = id /\ Len(e.batch) = len).batch

\* A batch after n steps of movement: a Position followed by a Velocity has
\* moved n times by the velocity, anything else is as it was.
movedBy(batch, n) ==
  IF Len(batch) = 2 /\ batch[1].type = "Position" /\ batch[2].type = "Velocity"
    THEN <<Position(batch[1].x + n * batch[2].x, batch[1].y + n * batch[2].y), batch[2]>>
    ELSE batch

\* C23: with one MovementSystem on the stepped schedule, after n steps every
\* entity with a Position and a Velocity has position = initial position +
\* n * velocity and its velocity unchanged, and every other entity is
\* unchanged (one step: entity 10 at (1,1), entity 15 at (4,4)).
C23_MovementAddsVelocity ==
  (/\ call.pc = "idle"
   /\ Cardinality({i \in 1..Len(scheduledSystems) :
                     scheduledSystems[i].system = "Movement"}) = 1)
    => /\ \A i \in 1..Len(table) :
            LET e == table[i].entity IN
            valuesOf(Store, e)
              = movedBy(initialOf(e, Len(getAll(Store, e).items)), Len(stepLog))
       /\ (Len(stepLog) = 1 /\ has(Store, 10, "Velocity"))
            => valuesOf(Store, 10)[1] = Position(1, 1)
       /\ (Len(stepLog) = 1 /\ has(Store, 15, "Velocity"))
            => valuesOf(Store, 15)[1] = Position(4, 4)

\* Two steps of movement were made on the tests' entities: entity 10 is at
\* (2,2) and entity 15 at (3,3).
C23_Witness ==
  /\ call.pc = "idle"
  /\ Len(stepLog) = 2
  /\ has(Store, 10, "Velocity") /\ has(Store, 15, "Velocity")
  /\ valuesOf(Store, 10) = <<Position(2, 2), Velocity(1, 1)>>
  /\ valuesOf(Store, 15) = <<Position(3, 3), Velocity(-1, -1)>>

\* ------------------------------------------- claims about the table's frame
\* C24: add(e, c) leaves getAll(e') as it was for every other entity e',
\* also after one array was passed to addAll for two entities.
C24_AddTouchesOnlyItsEntity ==
  [][\A e \in TableEntities :
       (\E c \in ComponentInputs : tableAdd(e, c))
         => \A e2 \in TableEntities \ {e} : getAll(StoreNext, e2) = getAll(Store, e2)]_vars

\* The least position of a component of class t in the list items, 0 if none.
firstPlace(st, items, t) ==
  LET hits == {i \in 1..Len(items) : st.heap[items[i]].type = t}
  IN IF hits = {} THEN 0 ELSE CHOOSE i \in hits : \A j \in hits : i <= j

\* C25: get(e, T) returns the component at the least position of class T in
\* getAll(e), and undefined when e does not exist or holds none of class T.
C25_GetReturnsFirst ==
  [][\A e \in TableEntities, t \in TypeNames :
       callGet(e, t)
         => LET l == getAll(Store, e)
                k == firstPlace(Store, l.items, t)
            IN /\ returned'.op = "get"
               /\ returned'.value = IF l.defined /\ k # 0 THEN l.items[k] ELSE 0]_vars

\* get(10, Position) returned the first of two Positions of entity 10.
C25_Witness ==
  /\ returned.op = "get"
  /\ getAll(Store, 10).defined
  /\ Len(getAll(Store, 10).items) = 2
  /\ \A i \in 1..2 : heap[getAll(Store, 10).items[i]].type = "Position"
  /\ returned.value = getAll(Store, 10).items[1]
  /\ returned.value # getAll(Store, 10).items[2]

\* Entity e is not a key of the table.
missing(e) == \A i \in 1..Len(table) : table[i].entity # e

\* Entity e is missing or holds no component of class t.
lacks(e, t) ==
  \/ missing(e)
  \/ LET values == valuesOf(Store, e)
     IN \A i \in 1..Len(values) : values[i].type # t

\* The step is a lookup.
lookup ==
  \/ \E e \in TableEntities, t \in TypeNames : callHas(e, t) \/ callGet(e, t)
  \/ \E e \in TableEntities, S \in TypeLists : callHasAll(e, S)
  \/ \E e \in TableEntities : callGetAll(e)
  \/ \E S \in TypeLists : callFind(S)

\* C26: a lookup raises no error and leaves the store as it was; on a
\* missing entity or component has and hasAll return false, get and getAll
\* return undefined, and find returns the empty sequence when no entity
\* holds all the classes.
C26_LookupsOnMissing ==
  [][/\ (thrown' = NoError /\ StoreNext = Store) \/ ~lookup
     /\ returned'.op = "has" =>
          \A e \in TableEntities, t \in TypeNames :
            (callHas(e, t) /\ lacks(e, t)) => returned'.value = FALSE
     /\ returned'.op = "get" =>
          \A e \in TableEntities, t \in TypeNames :
            (callGet(e, t) /\ lacks(e, t)) => returned'.value = 0
     /\ returned'.op = "hasAll" =>
          \A e \in TableEntities, S \in TypeLists :
            (callHasAll(e, S) /\ (missing(e) \/ \E k \in 1..Len(S) : lacks(e, S[k])))
              => returned'.value = FALSE
     /\ returned'.op = "getAll" =>
          \A e \in TableEntities :
            (callGetAll(e) /\ missing(e)) => returned'.value = Undefined
     /\ returned'.op = "find" =>
          \A S \in TypeLists :
            (callFind(S) /\ \A e \in knownEntities : \E k \in 1..Len(S) : lacks(e, S[k]))
              => returned'.value = <<>>]_vars

\* getAll of a missing entity returned undefined on a table that holds
\* another entity.
C26_Witness ==
  /\ returned = [op |-> "getAll", value |-> Undefined]
  /\ thrown = NoError
  /\ table # <<>>
  /\ \E e \in TableEntities : missing(e)

\* The keys of the table in the order find() visits them.
foundEntities(st, S) ==
  LET queries == find(st, S)
  IN [k \in 1..Len(queries) |-> queries[k].entity]

\* The position of x in the sequence seq, 0 if it is not in it.
placeIn(seq, x) ==
  IF \E i \in 1..Len(seq) : seq[i] = x
    THEN CHOOSE i \in 1..Len(seq) : seq[i] = x
    ELSE 0

\* C27: delete(e) raises no error and leaves e without a record; every
\* other entity keeps its record, its components' values and its place, and
\* the store is unchanged when e was absent.
C27_DeleteRemovesExactly ==
  [][\A e \in TableEntities :
       tableDelete(e)
         => /\ thrown' = NoError
            /\ getAll(StoreNext, e) = Undefined
            /\ \A e2 \in TableEntities \ {e} :
                 /\ getAll(StoreNext, e2) = getAll(Store, e2)
                 /\ valuesOf(StoreNext, e2) = valuesOf(Store, e2)
            /\ foundEntities(StoreNext, <<>>)
                 = SelectSeq(foundEntities(Store, <<>>), LAMBDA x : x # e)
            /\ getAll(Store, e) = Undefined => StoreNext = Store]_vars

\* Entity 10 alone holds the second array made while the first array, made
\* for an entity, is held by none: an entity was deleted.
C27_Witness ==
  /\ table = <<[entity |-> 10, arr |-> 2]>>
  /\ Len(arrays) = 2
  /\ arrays[1] # <<>>
  /\ arrays[2] # <<>>
  /\ thrown = NoError

\* C28: find visits the entities in insertion order: every result is in the
\* order of find() without classes, which lists every entity; a call leaves
\* the entities that stay in the order they had, and an entity that was not
\* in the store before the call (new, or deleted earlier) comes after all
\* those that were.
C28_FindInInsertionOrder ==
  [][LET before == foundEntities(Store, <<>>)
         after == foundEntities(StoreNext, <<>>)
     IN /\ \A i, j \in 1..Len(after) :
             i < j =>
               /\ (placeIn(before, after[i]) # 0 /\ placeIn(before, after[j]) # 0)
                    => placeIn(before, after[i]) < placeIn(before, after[j])
               /\ placeIn(before, after[i]) = 0 => placeIn(before, after[j]) = 0
        /\ \A S \in TypeLists :
             LET found == foundEntities(StoreNext, S)
             IN \A i, j \in 1..Len(found) :
                  i < j => placeIn(after, found[i]) < placeIn(after, found[j])]_vars

\* Entity 0 holds the first array made and stands after entity 10, which
\* holds the second: entity 0 was deleted and added again, and find lists
\* 10 before 0.
C28_Witness ==
  /\ table = <<[entity |-> 10, arr |-> 2], [entity |-> 0, arr |-> 1]>>
  /\ arrays[1] # <<>>
  /\ foundEntities(Store, <<"Position">>) = <<10, 0>>

\* The step is an add or addAll call of the table, or an addEntity.
addCall ==
  \/ \E e \in TableEntities, c \in ComponentInputs : tableAdd(e, c)
  \/ \E e \in TableEntities, b \in BatchInputs : tableAddAll(e, b)
  \/ \E b \in BatchInputs : addEntity(10, b) \/ addEntity(NoId, b)

\* C29: no entity exists at the start and none comes to exist but by an add,
\* addAll or addEntity on it; add(e, c) and addAll(e, batch) leave e
\* existing, and no add, addAll or addEntity ends the existence of an entity.
C29_ExistsAfterAdd ==
  /\ \A e \in TableEntities \cup {1} : ~exists(Store, e)
  /\ [][\A e \in TableEntities \cup {1} :
          /\ (~exists(Store, e) /\ exists(StoreNext, e)) => addsEntity(e)
          /\ ((\E c \in ComponentInputs : tableAdd(e, c))
                \/ (\E b \in BatchInputs : tableAddAll(e, b)))
               => exists(StoreNext, e)
          /\ (exists(Store, e) /\ ~exists(StoreNext, e)) => ~addCall]_vars

\* Entity 10 exists after two adds, entity 0 was never added.
C29_Witness ==
  /\ table = <<[entity |-> 10, arr |-> 1]>>
  /\ Len(arrays) = 1
  /\ Len(arrays[1]) = 2
  /\ Len(heap) = 2
  /\ exists(Store, 10) /\ ~exists(Store, 0)

\* C30: once getArchetypeTable() has returned the table, add, addAll and
\* delete called on it leave the records of all entities as they were.
C30_ReturnedTableReadOnly ==
  [][(/\ frozen
      /\ \/ \E e \in TableEntities, c \in ComponentInputs : tableAdd(e, c)
         \/ \E e \in TableEntities, b \in BatchInputs : tableAddAll(e, b)
         \/ \E e \in TableEntities : tableDelete(e))
       => \A e \in TableEntities : getAll(StoreNext, e) = getAll(Store, e)]_vars

\* ------------------------------------------------- claims about find and get
\* C39: every query of find(T1..Tn) has n components; the i-th is the object
\* get(e, Ti) returns, the first of class Ti in the entity's list, and a
\* class requested twice yields the same object twice.
C39_FindAgreesWithGet ==
  \A S \in TypeLists :
    LET queries == find(Store, S)
    IN \A k \in 1..Len(queries) :
         LET e == queries[k].entity
             comps == queries[k].components
             items == getAll(Store, e).items
         IN /\ Len(comps) = Len(S)
            /\ \A i \in 1..Len(S) :
                 /\ comps[i] = get(Store, e, S[i])
                 /\ firstPlace(Store, items, S[i]) # 0
                 /\ comps[i] = items[firstPlace(Store, items, S[i])]
                 /\ \A j \in 1..Len(S) : S[i] = S[j] => comps[i] = comps[j]

\* Entity 10 holds two Position objects and find(Position, Position) yields
\* the first of them twice.
C39_Witness ==
  /\ getAll(Store, 10).defined
  /\ Len(getAll(Store, 10).items) = 2
  /\ getAll(Store, 10).items[1] # getAll(Store, 10).items[2]
  /\ \A i \in 1..2 : heap[getAll(Store, 10).items[i]].type = "Position"
  /\ \E k \in 1..Len(find(Store, <<"Position", "Position">>)) :
       LET q == find(Store, <<"Position", "Position">>)[k]
       IN q.entity = 10 /\ q.components = <<getAll(Store, 10).items[1],
                                            getAll(Store, 10).items[1]>>

\* --------------------------------------------------- claims about entity ids
\* C36: addEntity(null, ...) never raises the duplicate-entity error, also
\* after entities were registered with ids of the caller or deleted.
C36_GeneratedIdNeverDuplicate ==
  [][(\E b \in BatchInputs : addEntity(NoId, b)) => thrown' # ErrDuplicate]_vars

\* ------------------------------------------- claims about the order of run()
\* C34: the schedules run() steps come in non-decreasing order value: no
\* step is made for a schedule of a lower order than one stepped before.
C34_StepsInOrder ==
  \A i, j \in 1..Len(stepLog) : i < j => order(stepLog[i]) <= order(stepLog[j])

\* C35: run() with predicates that are true finitely often terminates: it
\* does not come back, by advances alone, to a schedule whose predicate it
\* has found false (from there the same advances repeat without end).
C35_RunTerminates ==
  \A p, q \in 1..Len(predLog) :
    (/\ p < q
     /\ predLog[p].schedule = predLog[q].schedule
     /\ \A r \in p..q : predLog[r].value = Bool(FALSE))
      => runPc = "done"

\* ------------------------------------------- claims about stepping by hand
\* The entries select() was called for, in the order of the calls.
selectedOf(l) ==
  LET sel == SelectSeq(l, LAMBDA e : e.ev = "select")
  IN [k \in 1..Len(sel) |-> sel[k].sys]

\* The places of the registration list bound to a schedule, ascending.
boundTo(schedule) ==
  LET places == {k \in 1..Len(scheduledSystems) :
                   scheduledSystems[k].schedule = schedule}
  IN [n \in 1..Cardinality(places) |->
        CHOOSE k \in places : Cardinality({m \in places : m < k}) = n - 1]

\* C32: step(schedule) by hand leaves the cursor as it is, whatever it is;
\* select, hooks and updates are called for the entries bound to the
\* argument and for no other, each entry once in registration order, and
\* with no entry bound to the argument the call returns having called
\* nothing and changed nothing.
C32_StepRunsItsScheduleOnly ==
  [][/\ (call.caller = "user" \/ call'.caller = "user")
          => currentSchedule' = currentSchedule
     /\ call'.caller = "user"
          => \A k \in 1..Len(log') :
               scheduledSystems[log'[k].sys].schedule = call'.schedule
     /\ (call.caller = "user" /\ call'.pc = "idle")
          => /\ selectedOf(log') = boundTo(call.schedule)
             /\ boundTo(call.schedule) = <<>>
                  => /\ log' = <<>>
                     /\ <<table, arrays, heap>>' = <<table, arrays, heap>>]_vars

\* With the cursor moved by hand to the update schedule, step(startup) has
\* run the startup entry and only it, and the cursor is where it was.
C32_Witness ==
  /\ call.pc = "idle"
  /\ predLog = <<>>
  /\ stepLog = <<"startup">>
  /\ currentSchedule = "update"
  /\ Len(scheduledSystems) = 2
  /\ selectedOf(log) = boundTo("startup")
  /\ Len(selectedOf(log)) = 1
  /\ \E k \in 1..Len(log) : log[k].cb = "update"

\* C37: only run() evaluates the schedules' predicates. A step() or an
\* advanceSchedule() by hand evaluates none and leaves the startup
\* schedule's one-shot flag as it is; step(schedule) by hand calls the
\* systems of a schedule whose predicate returns false as of one whose
\* predicate returns true.
C37_OnlyRunEvaluatesPredicates ==
  [][/\ (call.caller = "user" \/ call'.caller = "user")
          => (firstTime' = firstTime /\ predLog' = predLog)
     /\ (runPc \in {"idle", "done"} /\ visited' # visited)
          => (firstTime' = firstTime /\ predLog' = predLog)
     /\ (firstTime' # firstTime \/ predLog' # predLog)
          => (runPc = "loop" /\ Len(predLog') = Len(predLog) + 1)
     /\ (call.caller = "user" /\ call'.pc = "idle")
          => selectedOf(log') = boundTo(call.schedule)]_vars

\* run() has consumed the startup schedule's flag and returned; a step for
\* the startup schedule made by hand afterwards has run its system.
C37_Witness ==
  /\ runPc = "done"
  /\ call.pc = "idle"
  /\ ~firstTime
  /\ predLog = <<[schedule |-> "startup", value |-> Bool(TRUE)],
                 [schedule |-> "startup", value |-> Bool(FALSE)]>>
  /\ stepLog = <<"startup", "startup">>
  /\ shouldRun("startup") = Bool(FALSE)
  /\ \E k \in 1..Len(log) : log[k].cb = "update" /\ log[k].ev = "end"

\* ------------------------------------------------- claims about the cursor
\* C38: the cursor is always null or the schedule of a registered entry, and
\* addEntity, addSystem, addHook and step (every move of a step() call, by
\* hand or by run()) leave the cursor as it is.
C38_CursorNullOrRegistered ==
  [][/\ \/ currentSchedule' = NULL
        \/ \E k \in 1..Len(scheduledSystems') :
             scheduledSystems'[k].schedule = currentSchedule'
     /\ (\/ scheduledSystems' # scheduledSystems
         \/ hooks' # hooks
         \/ lastEntityId' # lastEntityId
         \/ (call.pc = "idle" /\ table' # table)
         \/ call.pc # "idle"
         \/ call'.pc # "idle")
          => currentSchedule' = currentSchedule]_vars

\* The cursor was moved by hand to the update schedule, the only one
\* registered then; a startup system registered afterwards has left it there.
C38_Witness ==
  /\ currentSchedule = "update"
  /\ visited = <<"update">>
  /\ schedulesOf(scheduledSystems) = <<"update", "startup">>
  /\ exists(Store, 10)
  /\ Len(hooks) = 1
  /\ stepLog = <<"startup">>
  /\ call.pc = "idle"

\* ------------------------------------------------- claims about the batch
\* The last place of the log that belongs to the system execution whose
\* select() is logged at place p.
lastOf(p) ==
  IF \E r \in (p + 1)..Len(log) : log[r].ev = "select"
    THEN (CHOOSE r \in (p + 1)..Len(log) :
            /\ log[r].ev = "select"
            /\ \A m \in (p + 1)..(r - 1) : log[m].ev # "select") - 1
    ELSE Len(log)

\* The calls of update of that execution, in the order they were made.
updatesOf(p) ==
  SelectSeq(SubSeq(log, p + 1, lastOf(p)),
            LAMBDA e : e.cb = "update" /\ e.ev = "start")

\* All updates of that execution have been called.
updatesOver(p) ==
  \/ lastOf(p) < Len(log)
  \/ call.pc \in {"idle", "select", "after", "awaitAfter"}

\* C31: the batch select() returned is the batch of the whole execution of
\* the system: update is called once for each of its queries, in order, with
\* the query's entity, whether the entity is still in the store or not, and
\* for no other entity; the hooks' afterSystemUpdate receives that batch.
C31_BatchFixedBySelect ==
  \A p \in 1..Len(log) :
    log[p].ev = "select" =>
      LET batch == log[p].queries
          ups == updatesOf(p)
      IN /\ Len(ups) <= Len(batch)
         /\ updatesOver(p) => Len(ups) = Len(batch)
         /\ \A n \in 1..Len(ups) :
              ups[n].idx = n /\ ups[n].entity = batch[n].entity
         /\ \A r \in (p + 1)..lastOf(p) : log[r].queries = batch

\* Clone, then Cascade, have run on entities 10 and 15: Clone's two updates
\* added entities 11 and 16, for which it was not called; Cascade was called
\* for all four, also for 15 and 16, which its updates for 10 and 11 had
\* deleted; each after-hook got its system's batch.
C31_Witness ==
  /\ call.pc = "idle"
  /\ stepLog = <<"update">>
  /\ [k \in 1..Len(scheduledSystems) |-> scheduledSystems[k].system]
       = <<"Clone", "Cascade">>
  /\ exists(Store, 11) /\ ~exists(Store, 15) /\ ~exists(Store, 16)
  /\ \E p, r \in 1..Len(log) :
       /\ log[p].ev = "select" /\ log[p].sys = 1
       /\ [n \in 1..Len(updatesOf(p)) |-> updatesOf(p)[n].entity] = <<10, 15>>
       /\ log[r].ev = "select" /\ log[r].sys = 2
       /\ [n \in 1..Len(updatesOf(r)) |-> updatesOf(r)[n].entity] = <<10, 15, 11, 16>>
       /\ \E a \in (r + 1)..Len(log) :
            log[a].cb = "after" /\ Len(log[a].queries) = 4

\* ------------------------------------------- claims about live components
\* The hooks that write to the components they are given.
nudges == Cardinality({h \in 1..Len(hooks) : hooks[h] = "nudge"})

\* The place of the select() of the system execution the place r belongs to.
selectOf(r) ==
  CHOOSE p \in 1..r :
    log[p].ev = "select" /\ \A m \in (p + 1)..r : log[m].ev # "select"

\* C33: the queries hold the store's component objects. What a hook's
\* beforeSystemUpdate writes to a component of the batch is what the
\* system's update reads; what update writes is what the next update, the
\* after-hooks and the next system's select() read, and what get, getAll
\* and find on the store return after the step.
C33_QueriesAreLive ==
  /\ \A r \in 2..Len(log) :
       /\ log[r].ev = "start" => log[r].seen = log[r - 1].seen
       /\ (log[r].ev = "start" /\ log[r].cb = "update" /\ log[r].idx = 1)
            => \A k \in 1..Len(log[r].seen) :
                 log[r].seen[k].components[1].x
                   = log[selectOf(r)].seen[k].components[1].x + 10 * nudges
       /\ (log[r].ev = "end" /\ log[r].cb = "update")
            => log[r].seen[log[r].idx].components[1].x
                 > log[r - 1].seen[log[r].idx].components[1].x
       /\ log[r].ev = "select"
            => \A k \in 1..Len(log[r].queries), m \in 1..Len(log[r - 1].queries) :
                 \A i \in 1..Len(log[r].queries[k].components),
                    j \in 1..Len(log[r - 1].queries[m].components) :
                   log[r].queries[k].components[i]
                       = log[r - 1].queries[m].components[j]
                     => log[r].seen[k].components[i]
                          = log[r - 1].seen[m].components[j]
  /\ (call.pc = "idle" /\ log # <<>>)
       => LET last == log[Len(log)]
          IN /\ snapshot(Store, last.queries) = last.seen
             /\ select(scheduledSystems[last.sys].system, Store) = last.queries
             /\ \A k \in 1..Len(last.queries) :
                  \A i \in 1..Len(last.queries[k].components) :
                    LET c == last.queries[k].components[i]
                        e == last.queries[k].entity
                    IN /\ get(Store, e, heap[c].type) = c
                       /\ \E n \in 1..Len(getAll(Store, e).items) :
                            getAll(Store, e).items[n] = c
                       /\ heap[get(Store, e, heap[c].type)] = last.seen[k].components[i]

\* A step of IncreaseXByOne, then Movement, observed by a writing hook and a
\* recording one: entity 10's Position, created at (0, 0), was read as 10 by
\* the first update, as 11 by the recording hook's afterSystemUpdate, as 21
\* by Movement's update and is (22, 1) in the store after the step.
C33_Witness ==
  /\ call.pc = "idle"
  /\ stepLog = <<"update">>
  /\ hooks = <<"nudge", "both">>
  /\ [k \in 1..Len(scheduledSystems) |-> scheduledSystems[k].system]
       = <<"IncreaseXByOne", "Movement">>
  /\ get(Store, 10, "Position") # 0
  /\ heap[get(Store, 10, "Position")] = Position(22, 1)
  /\ \E r \in 1..Len(log) :
       /\ log[r].sys = 1 /\ log[r].cb = "update" /\ log[r].ev = "start"
       /\ log[r].entity = 10
       /\ log[r].seen[log[r].idx].components[1].x = 10
  /\ \E r \in 1..Len(log) :
       /\ log[r].sys = 1 /\ log[r].cb = "after" /\ log[r].ev = "start"
       /\ \E k \in 1..Len(log[r].seen) :
            log[r].seen[k].entity = 10 /\ log[r].seen[k].components[1].x = 11
  /\ \E r \in 1..Len(log) :
       /\ log[r].sys = 2 /\ log[r].cb = "update" /\ log[r].ev = "start"
       /\ log[r].seen[log[r].idx].components[1].x = 21

\* ------------------------------------------- claims about overlapping steps
\* C40: step() calls that overlap are serialized: between the first
\* before-hook and the last after-hook of a system execution of one call, no
\* hook or update of another call runs.
C40_StepCallsSerialized ==
  \A a, b, c \in 1..Len(log) :
    (/\ a < b /\ b < c
     /\ log[a].callId = log[c].callId
     /\ log[a].sys = log[c].sys
     /\ log[a].cb = "before"
     /\ log[c].cb = "after")
      => log[b].callId = log[a].callId

====
